---- MODULE Spec2Model ----
\* express-promise-router (src/lib/express-promise-router.ts): a PromiseRouter
\* wraps every handler registered on an express Router; the wrapper runs the
\* raw callback and, when it returns a promise, turns the settlement into a
\* call of the continuation (next), of the response policy (responseHandler)
\* or of the error policy (errorHandler).
EXTENDS Integers, Sequences, FiniteSets, TLC

\* ---------------------------------------------------------------- bounds
\* handlers (layers) the router may hold
MaxLayers == 2
\* registration calls made on one router when the calls themselves are studied
MaxCalls == 1
\* sub-routers obtained from router.route(path)
MaxRoutes == 1

\* ------------------------------------------------------- JavaScript values
\* A value is [t, v, n]: t is what typeof yields, v names the value, n is the
\* request a request-scoped object belongs to, or a function's declared
\* parameter count (Function.length).
Undefined == [t |-> "undefined", v |-> "undefined", n |-> 0]
Null == [t |-> "object", v |-> "null", n |-> 0]
Str(s) == [t |-> "string", v |-> s, n |-> 0]
Fn(name, len) == [t |-> "function", v |-> name, n |-> len]
Obj(name, r) == [t |-> "object", v |-> name, n |-> r]

\* the objects the framework hands to a handler of request r
Req(r) == Obj("req", r)
Res(r) == Obj("res", r)
NextFn(r) == Fn("next", r)

\* a promise (thenable) returned by a raw callback
PromiseObj == Obj("promise", 0)
\* a number
Num(k) == [t |-> "number", v |-> "number", n |-> k]
\* the router the adapter wraps, which its registration operations return
RouterObj == Obj("router", 0)
\* an exception raised by a callback the dispatcher called
Thrown == Obj("Error: thrown by callback", 0)
\* the TypeError of calling a value that is not a function
TypeErr == Obj("TypeError: not a function", 0)

TypeOf(x) == x.t
\* ToBoolean on the values above
Truthy(x) == x \notin {Undefined, Null, Str("")}

\* declared parameter counts of the raw callbacks a caller registers
HandlerLengths == {2, 3, 4}
\* values a returned promise is fulfilled with
ResolveValues == {Str("next"), Str("route"), Str("data"), Undefined}
\* reasons a returned promise is rejected with
RejectReasons == {Str("boom"), Null, Undefined}
\* what the options object holds for responseHandler and for errorHandler
ResponseOptions == {Undefined, Fn("responseHandler", 2)}
ErrorOptions == {Undefined, Fn("errorHandler", 2)}
\* the values that stand for a continuation decision
Sentinels == {Str("next"), Str("route")}
\* what a raw callback returns
ReturnValues == {Undefined, Str("next"), PromiseObj}

VARIABLES
    responseHandler,  \* this.responseHandler
    errorHandler,     \* this.errorHandler
    stack,            \* the framework's registered layers, in order
    calls,            \* number of registration calls made
    pos,              \* per request: index of the layer last dispatched
    status,           \* per request: "idle", "active", "finished"
    invs,             \* the handler invocations made so far
    outcome,          \* the last call of an intercepted operation: what it was
                      \* called with, what it passed on, what it returned or threw
    routes,           \* the objects router.route(path) has returned
    router,           \* this.router: what its operations' public and private
                      \* names hold
    peer              \* the policies of a second PromiseRouter instance

vars ==
    <<responseHandler, errorHandler, stack, calls, pos, status, invs, outcome, routes,
      router, peer>>

\* the model follows one request through the router's chain
Requests == {1}

\* ------------------------------------------------------------ helpers
\* the k-th positional argument of a call, undefined when it was not passed
Arg(args, k) == IF k <= Len(args) THEN args[k] ELSE Undefined

\* a call the dispatcher makes: the value called and its arguments
Call(callee, args) == [callee |-> callee, args |-> args]

\* is-promise: an object or function that has a callable then
isPromise(ret) == Truthy(ret) /\ TypeOf(ret) \in {"object", "function"} /\ ret.v = "promise"

\* Object.prototype.toString.call(handler)
ObjectToString(x) ==
    IF x = Undefined THEN "[object Undefined]"
    ELSE IF x = Null THEN "[object Null]"
    ELSE IF TypeOf(x) = "string" THEN "[object String]"
    ELSE IF TypeOf(x) = "function" THEN "[object Function]"
    ELSE IF TypeOf(x) = "number" THEN "[object Number]"
    ELSE IF x.v = "array" THEN "[object Array]"
    ELSE IF x.v = "regexp" THEN "[object RegExp]"
    ELSE "[object Object]"

\* --------------------------------------------------- Handler Normalizer
\* the function wrapHandler returns: branch is the arm of the
\* if / else-if / else that built it, n its own declared parameter count
Wrapper(handler, branch, length) ==
    [t |-> "function", v |-> "wrappedHandler", n |-> length,
     handler |-> handler, branch |-> branch]

\* wrapHandler whose wrappers all declare three parameters, the error-handler
\* one included
wrapHandler_allDeclareThree(handler) ==
    IF "function" # TypeOf(handler)
    THEN [threw |-> TRUE,
          msg |-> "Expected a callback function but got a " \o ObjectToString(handler)]
    ELSE IF handler.n = 2
    THEN [threw |-> FALSE, wrappedHandler |-> Wrapper(handler, "two", 3)]
    ELSE IF handler.n = 4
    THEN [threw |-> FALSE, wrappedHandler |-> Wrapper(handler, "four", 3)]
    ELSE [threw |-> FALSE, wrappedHandler |-> Wrapper(handler, "other", 3)]

\* wrapHandler taking every callback that declares neither two nor three
\* parameters for an error handler
wrapHandler_threeIsPlain(handler) ==
    IF "function" # TypeOf(handler)
    THEN [threw |-> TRUE,
          msg |-> "Expected a callback function but got a " \o ObjectToString(handler)]
    ELSE IF handler.n = 2
    THEN [threw |-> FALSE, wrappedHandler |-> Wrapper(handler, "two", 3)]
    ELSE IF handler.n = 3
    THEN [threw |-> FALSE, wrappedHandler |-> Wrapper(handler, "other", 3)]
    ELSE [threw |-> FALSE, wrappedHandler |-> Wrapper(handler, "four", 4)]

\* wrapHandler: the wrapper built for one registered value, or the error
\* thrown for a value that is not a function
wrapHandler(handler) ==
    IF "function" # TypeOf(handler)
    THEN [threw |-> TRUE,
          msg |-> "Expected a callback function but got a " \o ObjectToString(handler)]
    ELSE IF handler.n = 2
    THEN [threw |-> FALSE, wrappedHandler |-> Wrapper(handler, "two", 3)]
    ELSE IF handler.n = 4
    THEN [threw |-> FALSE, wrappedHandler |-> Wrapper(handler, "four", 4)]
    ELSE [threw |-> FALSE, wrappedHandler |-> Wrapper(handler, "other", 3)]

\* wrappedHandler whose two-parameter arm keeps no continuation (next: null)
wrappedHandler_terminalNoNext(w, args) ==
    IF w.branch = "two"
    THEN [handlerArgs |-> <<Arg(args, 1), Arg(args, 2), Arg(args, 3)>>,
          res |-> Arg(args, 2), next |-> Null, handleResponse |-> TRUE]
    ELSE IF w.branch = "four"
    THEN [handlerArgs |-> <<Arg(args, 1), Arg(args, 2), Arg(args, 3), Arg(args, 4)>>,
          res |-> IF "string" = TypeOf(Arg(args, 4)) THEN Arg(args, 2) ELSE Arg(args, 3),
          next |-> IF "string" = TypeOf(Arg(args, 4)) THEN Arg(args, 3) ELSE Arg(args, 4),
          handleResponse |-> FALSE]
    ELSE [handlerArgs |-> <<Arg(args, 1), Arg(args, 2), Arg(args, 3)>>,
          res |-> Arg(args, 2), next |-> Arg(args, 3), handleResponse |-> FALSE]

\* wrappedHandler whose four-parameter arm always adjusts, a string in last
\* place or not: the response and the continuation are its second and third
\* parameters
wrappedHandler_alwaysAdjusts(w, args) ==
    IF w.branch = "two"
    THEN [handlerArgs |-> <<Arg(args, 1), Arg(args, 2), Arg(args, 3)>>,
          res |-> Arg(args, 2), next |-> Arg(args, 3), handleResponse |-> TRUE]
    ELSE IF w.branch = "four"
    THEN [handlerArgs |-> <<Arg(args, 1), Arg(args, 2), Arg(args, 3), Arg(args, 4)>>,
          res |-> Arg(args, 2), next |-> Arg(args, 3), handleResponse |-> FALSE]
    ELSE [handlerArgs |-> <<Arg(args, 1), Arg(args, 2), Arg(args, 3)>>,
          res |-> Arg(args, 2), next |-> Arg(args, 3), handleResponse |-> FALSE]

\* wrappedHandler whose four-parameter arm never adjusts: the response and
\* the continuation are always its third and fourth parameters
wrappedHandler_noAdjustment(w, args) ==
    IF w.branch = "two"
    THEN [handlerArgs |-> <<Arg(args, 1), Arg(args, 2), Arg(args, 3)>>,
          res |-> Arg(args, 2), next |-> Arg(args, 3), handleResponse |-> TRUE]
    ELSE IF w.branch = "four"
    THEN [handlerArgs |-> <<Arg(args, 1), Arg(args, 2), Arg(args, 3), Arg(args, 4)>>,
          res |-> Arg(args, 3), next |-> Arg(args, 4), handleResponse |-> FALSE]
    ELSE [handlerArgs |-> <<Arg(args, 1), Arg(args, 2), Arg(args, 3)>>,
          res |-> Arg(args, 2), next |-> Arg(args, 3), handleResponse |-> FALSE]

\* wrappedHandler keeping the response and the continuation of the first
\* request for every later invocation
wrappedHandler_sharedContext(w, args) ==
    IF w.branch = "two"
    THEN [handlerArgs |-> <<Arg(args, 1), Arg(args, 2), Arg(args, 3)>>,
          res |-> Res(1), next |-> NextFn(1), handleResponse |-> TRUE]
    ELSE IF w.branch = "four"
    THEN [handlerArgs |-> <<Arg(args, 1), Arg(args, 2), Arg(args, 3), Arg(args, 4)>>,
          res |-> Res(1), next |-> NextFn(1), handleResponse |-> FALSE]
    ELSE [handlerArgs |-> <<Arg(args, 1), Arg(args, 2), Arg(args, 3)>>,
          res |-> Res(1), next |-> NextFn(1), handleResponse |-> FALSE]

\* wrappedHandler whose four-parameter arm adjusts in the other order
\* (res = req; next = res): both end up as the second positional argument
wrappedHandler_resThenNext(w, args) ==
    IF w.branch = "two"
    THEN [handlerArgs |-> <<Arg(args, 1), Arg(args, 2), Arg(args, 3)>>,
          res |-> Arg(args, 2), next |-> Arg(args, 3), handleResponse |-> TRUE]
    ELSE IF w.branch = "four"
    THEN [handlerArgs |-> <<Arg(args, 1), Arg(args, 2), Arg(args, 3), Arg(args, 4)>>,
          res |-> IF "string" = TypeOf(Arg(args, 4)) THEN Arg(args, 2) ELSE Arg(args, 3),
          next |-> IF "string" = TypeOf(Arg(args, 4)) THEN Arg(args, 2) ELSE Arg(args, 4),
          handleResponse |-> FALSE]
    ELSE [handlerArgs |-> <<Arg(args, 1), Arg(args, 2), Arg(args, 3)>>,
          res |-> Arg(args, 2), next |-> Arg(args, 3), handleResponse |-> FALSE]

\* wrappedHandler: what a wrapper does with the positional arguments it is
\* invoked with: the arguments it passes to the raw callback, and the res,
\* next and handleResponse it passes on to handleReturn.
wrappedHandler(w, args) ==
    IF w.branch = "two"
    THEN [handlerArgs |-> <<Arg(args, 1), Arg(args, 2), Arg(args, 3)>>,
          res |-> Arg(args, 2), next |-> Arg(args, 3), handleResponse |-> TRUE]
    ELSE IF w.branch = "four"
    THEN [handlerArgs |-> <<Arg(args, 1), Arg(args, 2), Arg(args, 3), Arg(args, 4)>>,
          res |-> IF "string" = TypeOf(Arg(args, 4)) THEN Arg(args, 2) ELSE Arg(args, 3),
          next |-> IF "string" = TypeOf(Arg(args, 4)) THEN Arg(args, 3) ELSE Arg(args, 4),
          handleResponse |-> FALSE]
    ELSE [handlerArgs |-> <<Arg(args, 1), Arg(args, 2), Arg(args, 3)>>,
          res |-> Arg(args, 2), next |-> Arg(args, 3), handleResponse |-> FALSE]

\* ---------------------------------------------------- Result Dispatcher
\* handlePromiseResult with the handleResponse test dropped: the response
\* policy is consulted for every handler class
handlePromiseResult_anyClass(result, res, next, handleResponse) ==
    IF result = Str("next") THEN <<Call(next, <<>>)>>
    ELSE IF result = Str("route") THEN <<Call(next, <<Str("route")>>)>>
    ELSE IF TypeOf(responseHandler) = "function"
    THEN <<Call(responseHandler, <<res, result>>)>>
    ELSE <<>>

\* handlePromiseResult treating a terminal handler as having no continuation:
\* the sentinels are looked at only when handleResponse is not set
handlePromiseResult_terminalFirst(result, res, next, handleResponse) ==
    IF handleResponse
    THEN IF TypeOf(responseHandler) = "function"
         THEN <<Call(responseHandler, <<res, result>>)>>
         ELSE <<>>
    ELSE IF result = Str("next") THEN <<Call(next, <<>>)>>
    ELSE IF result = Str("route") THEN <<Call(next, <<Str("route")>>)>>
    ELSE <<>>

\* handlePromiseResult: the calls (none or one) made for a fulfilled promise
handlePromiseResult(result, res, next, handleResponse) ==
    IF result = Str("next") THEN <<Call(next, <<>>)>>
    ELSE IF result = Str("route") THEN <<Call(next, <<Str("route")>>)>>
    ELSE IF TypeOf(responseHandler) = "function" /\ handleResponse
    THEN <<Call(responseHandler, <<res, result>>)>>
    ELSE <<>>

\* the Error handleError makes up for a rejection without a reason
NoReasonError == Obj("Error: Returned promise was rejected but did not have a reason", 0)

\* handleError without the substitution of a missing reason
handleError_keepsReason(error, res, next) ==
    IF TypeOf(errorHandler) = "function"
    THEN Call(errorHandler, <<res, error>>)
    ELSE Call(next, <<error>>)

\* handleError that never consults the error policy
handleError_noPolicy(error, res, next) ==
    LET e == IF ~Truthy(error) THEN NoReasonError ELSE error
    IN  Call(next, <<e>>)

\* handleError testing the error policy against null only
handleError_notNull(error, res, next) ==
    LET e == IF ~Truthy(error) THEN NoReasonError ELSE error
    IN  IF errorHandler # Null
        THEN Call(errorHandler, <<res, e>>)
        ELSE Call(next, <<e>>)

\* handleError: the call made for a rejection (or for an exception thrown by
\* the fulfilment callback)
handleError(error, res, next) ==
    LET e == IF ~Truthy(error) THEN NoReasonError ELSE error
    IN  IF TypeOf(errorHandler) = "function"
        THEN Call(errorHandler, <<res, e>>)
        ELSE Call(next, <<e>>)

\* ------------------------------------------------ the routing framework
\* The express Router the adapter is composed over: its layers are invoked in
\* order; a continuation called with nothing advances, with "route" skips the
\* rest of the registration, with an error moves to the next error handler.

\* the error a continuation call carries: "route" and falsy values are none
ErrorOf(a) ==
    IF a = <<>> \/ a = <<Str("route")>> \/ ~Truthy(a[1]) THEN Undefined ELSE a[1]

\* a layer holding a parameter callback (router.param): it records the
\* name of the parameter it is for
IsParam(layer) == "param" \in DOMAIN layer

\* whether the framework invokes a layer: error handlers are the functions
\* declaring four parameters, and only they are invoked while an error is
\* set; a parameter callback is invoked whatever it declares, on a request
\* without an error
Matches(layer, e) ==
    IF IsParam(layer) THEN ~Truthy(e)
    ELSE IF Truthy(e) THEN layer.wrapper.n = 4 ELSE layer.wrapper.n <= 3

\* the first layer index the search resumes from
ResumeFrom(p, a) ==
    IF a = <<Str("route")>> /\ p >= 1 /\ p <= Len(stack)
    THEN IF \E k \in (p + 1)..Len(stack) : stack[k].call # stack[p].call
         THEN CHOOSE k \in (p + 1)..Len(stack) :
                /\ stack[k].call # stack[p].call
                /\ \A j \in (p + 1)..(k - 1) : stack[j].call = stack[p].call
         ELSE Len(stack) + 1
    ELSE p + 1

\* the layer a continuation call made at position p dispatches to;
\* Len(stack) + 1 when the chain is exhausted
Target(p, a) ==
    LET from == ResumeFrom(p, a)
        hits == {k \in from..Len(stack) : Matches(stack[k], ErrorOf(a))}
    IN  IF hits = {} THEN Len(stack) + 1
        ELSE CHOOSE k \in hits : \A j \in hits : k <= j

\* the positional arguments the framework invokes a layer with
FrameworkArgs(r, a) ==
    IF Truthy(ErrorOf(a))
    THEN <<ErrorOf(a), Req(r), Res(r), NextFn(r)>>
    ELSE <<Req(r), Res(r), NextFn(r)>>

\* the value the request carries for a path parameter
ParamValue == Str("42")
\* the positional arguments the framework invokes a parameter callback with:
\* request, response, continuation, captured value, parameter name
ParamArgs(r, layer) == <<Req(r), Res(r), NextFn(r), ParamValue, layer.param>>

\* a fresh invocation of the layer k for request r; cause is the invocation
\* whose dispatcher made the continuation call (0: the framework itself,
\* -i: the raw callback of invocation i called the continuation itself);
\* own holds the arguments of the calls the raw callback made itself;
\* escaped is the exception that left the wrapper, if one did
NewInvocation(r, k, a, cause) ==
    [req |-> r, layer |-> k,
     args |-> IF IsParam(stack[k]) THEN ParamArgs(r, stack[k]) ELSE FrameworkArgs(r, a),
     cause |-> cause,
     phase |-> "called", own |-> <<>>, handlerArgs |-> <<>>, ret |-> Undefined,
     res |-> Undefined, next |-> Undefined, handleResponse |-> FALSE,
     promise |-> "none", value |-> Undefined,
     task |-> "none", reason |-> Undefined, log |-> <<>>, unhandled |-> FALSE,
     escaped |-> Undefined]

\* the continuation of request r called with the arguments a, by the
\* dispatcher of the invocation cause; base is invs as the caller leaves it
Continue(r, a, cause, base) ==
    LET k == Target(pos[r], a)
    IN  /\ pos' = [pos EXCEPT ![r] = k]
        /\ IF k <= Len(stack)
           THEN /\ status' = [status EXCEPT ![r] = "active"]
                /\ invs' = Append(base, NewInvocation(r, k, a, cause))
           ELSE /\ status' = [status EXCEPT ![r] = "finished"]
                /\ invs' = base

\* ------------------------------------------------- Method Interceptor
Arr(items) == [t |-> "object", v |-> "array", n |-> 0, items |-> items]
RegExp == Obj("regexp", 0)
isString(arg) == TypeOf(arg) = "string"
isRegExp(arg) == arg = RegExp
isArray(arg) == TypeOf(arg) = "object" /\ arg.v = "array"
\* x[0]: an array's first element, one character of a string, undefined
\* of any other object; reading it from undefined or null throws
First(x) ==
    IF isArray(x) THEN Arg(x.items, 1)
    ELSE IF isString(x) /\ x.v # "" THEN Str("c")
    ELSE Undefined
IndexThrows(x) == x \in {Undefined, Null}

firstArgumentIsArray(args) ==
    (isArray(Arg(args, 1)) /\ isString(First(Arg(args, 1)))) \/ isRegExp(First(Arg(args, 1)))

shouldRemoveFirstArg(args) ==
    isString(Arg(args, 1)) \/ isRegExp(Arg(args, 1)) \/ firstArgumentIsArray(args)

\* a flatten that opens one level of nesting only
RECURSIVE flattenDeep_oneLevel(_)
flattenDeep_oneLevel(items) ==
    IF items = <<>> THEN <<>>
    ELSE (IF isArray(Head(items)) THEN Head(items).items ELSE <<Head(items)>>)
         \o flattenDeep_oneLevel(Tail(items))

\* lodash.flattendeep
RECURSIVE flattenDeep(_)
flattenDeep(items) ==
    IF items = <<>> THEN <<>>
    ELSE (IF isArray(Head(items)) THEN flattenDeep(Head(items).items) ELSE <<Head(items)>>)
         \o flattenDeep(Tail(items))

\* a map that wraps the first value only
MapWrap_firstOnly(flat) ==
    IF flat = <<>> THEN <<>>
    ELSE <<wrapHandler(Head(flat)).wrappedHandler>> \o Tail(flat)

\* the wrappers of a flat sequence of registered values, in order
RECURSIVE MapWrap(_)
MapWrap(flat) ==
    IF flat = <<>> THEN <<>>
    ELSE <<wrapHandler(Head(flat)).wrappedHandler>> \o MapWrap(Tail(flat))

\* the proxy leaving out the values that are no functions instead of throwing
wrapMethod_skipsInvalid(args) ==
    LET remove == shouldRemoveFirstArg(args)
        first == IF remove THEN args[1] ELSE Null
        rest == IF remove THEN Tail(args) ELSE args
        good == SelectSeq(flattenDeep(rest), LAMBDA x : TypeOf(x) = "function")
    IN  [threw |-> FALSE,
         args |-> IF Truthy(first) THEN <<first>> \o MapWrap(good) ELSE MapWrap(good)]

\* the proxy wrapMethod installs: the arguments it hands to the original
\* operation, or the error thrown before the original operation is reached
wrapMethod(args) ==
    LET remove == shouldRemoveFirstArg(args)
        first == IF remove THEN args[1] ELSE Null
        rest == IF remove THEN Tail(args) ELSE args
        flat == flattenDeep(rest)
        bad == {k \in 1..Len(flat) : wrapHandler(flat[k]).threw}
    IN  IF ~isString(Arg(args, 1)) /\ ~isRegExp(Arg(args, 1)) /\ IndexThrows(Arg(args, 1))
        THEN [threw |-> TRUE, msg |-> "TypeError: Cannot read property '0'"]
        ELSE IF bad # {}
        THEN [threw |-> TRUE,
              msg |-> wrapHandler(flat[CHOOSE k \in bad : \A j \in bad : k <= j]).msg]
        ELSE [threw |-> FALSE,
              args |-> IF Truthy(first) THEN <<first>> \o MapWrap(flat) ELSE MapWrap(flat)]

\* the framework's own registration operation: one layer per callback, in
\* order, all of them belonging to the registration call c
OriginalOperation(args, c) ==
    LET fns == SelectSeq(args, LAMBDA x : TypeOf(x) = "function")
    IN  [k \in 1..Len(fns) |-> [wrapper |-> fns[k], call |-> c]]

\* ------------------------------------------------ intercepted objects
\* the verb names of the methods package (two of them stand for all)
httpMethods == {"get", "post"}
\* the operations wrapMethods intercepts on the router
RouterMethods == httpMethods \cup {"use", "all", "param"}
\* the registration operations a route object of the framework offers
RouteOperations == httpMethods \cup {"all"}

\* an object of the framework before it is intercepted: each public name
\* holds the framework's own operation, no private name is set
Original(method) == [v |-> "original", of |-> method, gen |-> 0]
Fresh(names) ==
    [pub |-> [m \in names |-> Original(m)],
     priv |-> [m \in names |-> [v |-> "undefined", of |-> m, gen |-> 0]]]
\* the proxy a call of wrapMethod or wrapRoute makes for the operation
\* method: gen tells the proxies of successive calls apart
Proxy(method, held) == [v |-> "proxy", of |-> method, gen |-> held.gen + 1]
\* wrapMethod(method, instanceToWrap): the private name gets what the
\* public name holds, the public name gets a new proxy
Intercept(method, instanceToWrap) ==
    [pub |-> [instanceToWrap.pub EXCEPT ![method] = Proxy(method, instanceToWrap.pub[method])],
     priv |-> [instanceToWrap.priv EXCEPT ![method] = instanceToWrap.pub[method]]]
\* methods.forEach(method => this.wrapMethod(method, instance))
RECURSIVE InterceptEach(_, _)
InterceptEach(methods, instance) ==
    IF methods = <<>> THEN instance
    ELSE InterceptEach(Tail(methods), Intercept(Head(methods), instance))
\* httpMethods as the list the methods package exports
httpMethodList == <<"get", "post">>

\* wrapMethods working through a list that names 'all' twice
wrapMethods_allTwice(instance) ==
    InterceptEach(httpMethodList \o <<"all", "use", "all", "param">>, instance)

\* wrapMethods(router)
wrapMethods(instance) ==
    InterceptEach(httpMethodList \o <<"use", "all", "param">>, instance)

\* wrapRoute(router), the part done at construction: router.__route =
\* router.route; router.route = the proxy
wrapRoute_router(instance) == Intercept("route", instance)

\* no second instance was made
NoPeer == [responseHandler |-> Undefined, errorHandler |-> Undefined]

\* ------------------------------------------------------------- actions
\* no intercepted operation was called yet
NoCall ==
    [on |-> Undefined, call |-> <<>>, threw |-> FALSE, msg |-> "",
     passed |-> <<>>, returned |-> Undefined]

\* new PromiseRouter(options): the options' policies are stored as given
Init ==
    /\ responseHandler \in ResponseOptions
    /\ errorHandler \in ErrorOptions
    /\ stack = <<>>
    /\ calls = 0
    /\ pos = [r \in Requests |-> 0]
    /\ status = [r \in Requests |-> "idle"]
    /\ invs = <<>>
    /\ outcome = NoCall
    /\ routes = <<>>
    /\ router = wrapRoute_router(wrapMethods(Fresh(RouterMethods \cup {"route"})))
    /\ peer = NoPeer

\* the raw callbacks and the argument lists a registration call is made with
Handlers == {Fn("handler", len) : len \in HandlerLengths}
HandlerLists(room) == UNION {[1..m -> Handlers] : m \in 1..room}
Selectors == {Str("/foo")}

\* router.use / router.get / ... (args): the intercepted operation; the
\* handlers are registered before the router serves requests
Register(args) ==
    LET out == wrapMethod(args)
    IN  /\ \A r \in DOMAIN status : status[r] = "idle"
        /\ calls' = calls + 1
        /\ stack' = IF out.threw THEN stack
                    ELSE stack \o OriginalOperation(out.args, calls + 1)
        /\ outcome' = [on |-> RouterObj, call |-> args, threw |-> out.threw,
                       msg |-> IF out.threw THEN out.msg ELSE "",
                       passed |-> IF out.threw THEN <<>> ELSE out.args,
                       returned |-> IF out.threw THEN Undefined ELSE RouterObj]
        /\ UNCHANGED <<responseHandler, errorHandler, router, peer, routes, pos, status, invs>>

\* JavaScript runs a call to completion: a wrapper the framework has invoked
\* returns before any promise callback or new request is served
Quiet == \A j \in 1..Len(invs) : invs[j].phase = "returned"

\* a request enters the router: the framework dispatches to the first layer
StartRequest(r) ==
    /\ Quiet
    /\ status[r] = "idle"
    /\ Continue(r, <<>>, 0, invs)
    /\ UNCHANGED <<responseHandler, errorHandler, router, peer, stack, calls, outcome, routes>>

\* whether a value is a continuation the framework handed out
IsContinuation(x) == TypeOf(x) = "function" /\ x.v = "next"

\* the invocation on top of the JavaScript call stack: every invocation made
\* after it has returned
Running(i) == \A j \in (i + 1)..Len(invs) : invs[j].phase = "returned"

\* the raw callback of invocation i, while it runs, calls the continuation it
\* was handed with the arguments a: the framework dispatches synchronously
OwnCall(i, a) ==
    LET inv == invs[i]
        ctx == wrappedHandler(stack[inv.layer].wrapper, inv.args)
        next == ctx.handlerArgs[Len(ctx.handlerArgs)]
    IN  /\ inv.phase = "called"
        /\ Running(i)
        /\ inv.own = <<>>
        /\ IsContinuation(next)
        /\ Continue(next.n, a, -i, [invs EXCEPT ![i].own = <<a>>])
        /\ UNCHANGED <<responseHandler, errorHandler, router, peer, stack, calls, outcome, routes>>

\* handleReturn that attaches the promise callbacks to whatever was returned
handleReturn_anyValue(ret, res, next, handleResponse) ==
    [ret |-> ret, res |-> res, next |-> next, handleResponse |-> handleResponse,
     task |-> "then"]

\* handleReturn(ret, res, next, handleResponse): the promise callbacks are
\* attached when ret is a promise, nothing happens otherwise
handleReturn(ret, res, next, handleResponse) ==
    [ret |-> ret, res |-> res, next |-> next, handleResponse |-> handleResponse,
     task |-> IF isPromise(ret) THEN "then" ELSE "none"]

\* the wrapper runs up to the return of handleReturn: it invokes the raw
\* callback with handlerArgs, which returns ret (a promise
\* may be pending or already settled), and passes ret to handleReturn, whose
\* callbacks hang on Promise.resolve(ret): ret itself when it is a promise, a
\* promise fulfilled with ret otherwise
CallHandler(i, ret, settled, value) ==
    LET inv == invs[i]
        ctx == wrappedHandler(stack[inv.layer].wrapper, inv.args)
        hr == handleReturn(ret, ctx.res, ctx.next, ctx.handleResponse)
    IN  /\ inv.phase = "called"
        /\ Running(i)
        /\ IF isPromise(ret)
           THEN \/ settled = "pending" /\ value = Undefined
                \/ settled = "fulfilled" /\ value \in ResolveValues
                \/ settled = "rejected" /\ value \in RejectReasons
           ELSE settled = "none" /\ value = Undefined
        /\ invs' = [invs EXCEPT ![i] =
                      [inv EXCEPT !.phase = "handled", !.handlerArgs = ctx.handlerArgs,
                                  !.ret = hr.ret, !.res = hr.res,
                                  !.next = hr.next, !.handleResponse = hr.handleResponse,
                                  !.task = hr.task,
                                  !.promise = IF hr.task = "then" /\ settled = "none"
                                              THEN "fulfilled" ELSE settled,
                                  !.value = IF hr.task = "then" /\ settled = "none"
                                            THEN ret ELSE value]]
        /\ UNCHANGED <<responseHandler, errorHandler, router, peer, stack, calls, outcome, routes, pos, status>>

\* the wrapper returns to the framework, handleReturn having returned
Return(i) ==
    /\ invs[i].phase = "handled"
    /\ invs' = [invs EXCEPT ![i].phase = "returned"]
    /\ UNCHANGED <<responseHandler, errorHandler, router, peer, stack, calls, outcome, routes, pos, status>>

\* a pending promise is fulfilled or rejected by whoever made it
Settle(i, settled, value) ==
    /\ Quiet
    /\ invs[i].promise = "pending"
    /\ \/ settled = "fulfilled" /\ value \in ResolveValues
       \/ settled = "rejected" /\ value \in RejectReasons
    /\ invs' = [invs EXCEPT ![i].promise = settled, ![i].value = value]
    /\ UNCHANGED <<responseHandler, errorHandler, router, peer, stack, calls, outcome, routes, pos, status>>

\* the exception a failed call raises
Exception(c) == IF TypeOf(c.callee) # "function" THEN TypeErr ELSE Thrown

\* the record of a call in an invocation's log: to is the layer a
\* continuation call dispatched to (0 for any other call)
Logged(c, threw) ==
    [callee |-> c.callee, args |-> c.args, threw |-> threw,
     to |-> IF IsContinuation(c.callee) THEN Target(pos[c.callee.n], c.args) ELSE 0]

\* the dispatcher of invocation i makes the call c, which returns or throws;
\* me is the invocation's record after the call. Calling what is not a
\* function throws. A continuation dispatches as the framework's contract
\* says; the exception, if any, escapes from it after that.
MakeCall(i, c, threw, me) ==
    LET base == [invs EXCEPT ![i] = me]
    IN  /\ TypeOf(c.callee) # "function" => threw
        /\ IF IsContinuation(c.callee)
           THEN Continue(c.callee.n, c.args, i, base)
           ELSE invs' = base /\ UNCHANGED <<pos, status>>

\* the fulfilment callback running whether or not the promise is fulfilled
ThenCallback_unsettled(i, threw) ==
    LET inv == invs[i]
        cs == handlePromiseResult(inv.value, inv.res, inv.next, inv.handleResponse)
    IN  /\ Quiet
        /\ inv.task = "then"
        /\ IF cs = <<>>
           THEN /\ ~threw
                /\ invs' = [invs EXCEPT ![i].task = "done"]
                /\ UNCHANGED <<pos, status>>
           ELSE MakeCall(i, cs[1], threw,
                    [inv EXCEPT !.log = Append(@, Logged(cs[1], threw)),
                                !.task = IF threw THEN "catch" ELSE "done",
                                !.reason = IF threw THEN Exception(cs[1]) ELSE @])
        /\ UNCHANGED <<responseHandler, errorHandler, router, peer, stack, calls, outcome, routes>>

\* the fulfilment callback run from inside handleReturn, as soon as the
\* promise is seen fulfilled, instead of from the job queue
ThenCallback_inline(i, threw) ==
    LET inv == invs[i]
        cs == handlePromiseResult(inv.value, inv.res, inv.next, inv.handleResponse)
    IN  /\ inv.task = "then"
        /\ inv.promise = "fulfilled"
        /\ IF cs = <<>>
           THEN /\ ~threw
                /\ invs' = [invs EXCEPT ![i].task = "done"]
                /\ UNCHANGED <<pos, status>>
           ELSE MakeCall(i, cs[1], threw,
                    [inv EXCEPT !.log = Append(@, Logged(cs[1], threw)),
                                !.task = IF threw THEN "catch" ELSE "done",
                                !.reason = IF threw THEN Exception(cs[1]) ELSE @])
        /\ UNCHANGED <<responseHandler, errorHandler, router, peer, stack, calls, outcome, routes>>

\* .then((result) => this.handlePromiseResult(result, res, next, handleResponse)):
\* Promise.resolve(ret).then queues the callback as a job, which runs when
\* no call is in progress
ThenCallback(i, threw) ==
    LET inv == invs[i]
        cs == handlePromiseResult(inv.value, inv.res, inv.next, inv.handleResponse)
    IN  /\ Quiet
        /\ inv.task = "then"
        /\ inv.promise = "fulfilled"
        /\ IF cs = <<>>
           THEN /\ ~threw
                /\ invs' = [invs EXCEPT ![i].task = "done"]
                /\ UNCHANGED <<pos, status>>
           ELSE MakeCall(i, cs[1], threw,
                    [inv EXCEPT !.log = Append(@, Logged(cs[1], threw)),
                                !.task = IF threw THEN "catch" ELSE "done",
                                !.reason = IF threw THEN Exception(cs[1]) ELSE @])
        /\ UNCHANGED <<responseHandler, errorHandler, router, peer, stack, calls, outcome, routes>>

\* the rejection callback falling back on the continuation when the error
\* policy throws
CatchCallback_fallsBack(i, threw) ==
    LET inv == invs[i]
        error == IF inv.task = "catch" THEN inv.reason ELSE inv.value
        c == handleError(error, inv.res, inv.next)
        again == Call(inv.next, <<Exception(c)>>)
    IN  /\ Quiet
        /\ \/ inv.task = "catch"
           \/ inv.task = "then" /\ inv.promise = "rejected"
        /\ IF threw /\ ~IsContinuation(c.callee)
           THEN MakeCall(i, again, FALSE,
                    [inv EXCEPT !.log = @ \o <<Logged(c, TRUE), Logged(again, FALSE)>>,
                                !.task = "done", !.reason = error])
           ELSE MakeCall(i, c, threw,
                    [inv EXCEPT !.log = Append(@, Logged(c, threw)),
                                !.task = "done", !.reason = error, !.unhandled = threw])
        /\ UNCHANGED <<responseHandler, errorHandler, router, peer, stack, calls, outcome, routes>>

\* .catch((error) => this.handleError(error, res, next)): runs for a rejected
\* promise and for an exception thrown by the fulfilment callback; what it
\* throws itself is an unhandled rejection
CatchCallback(i, threw) ==
    LET inv == invs[i]
        error == IF inv.task = "catch" THEN inv.reason ELSE inv.value
        c == handleError(error, inv.res, inv.next)
    IN  /\ Quiet
        /\ \/ inv.task = "catch"
           \/ inv.task = "then" /\ inv.promise = "rejected"
        /\ MakeCall(i, c, threw,
               [inv EXCEPT !.log = Append(@, Logged(c, threw)),
                           !.task = "done", !.reason = error, !.unhandled = threw])
        /\ UNCHANGED <<responseHandler, errorHandler, router, peer, stack, calls, outcome, routes>>

Next ==
    \/ \E sel \in Selectors, hs \in HandlerLists(MaxLayers - Len(stack)) :
          Register(<<sel>> \o hs)
    \/ \E r \in Requests : StartRequest(r)
    \/ \E i \in 1..Len(invs), ret \in ReturnValues,
          settled \in {"none", "pending", "fulfilled", "rejected"},
          value \in ResolveValues \cup RejectReasons :
          CallHandler(i, ret, settled, value)
    \/ \E i \in 1..Len(invs), settled \in {"fulfilled", "rejected"},
          value \in ResolveValues \cup RejectReasons :
          Settle(i, settled, value)
    \/ \E i \in 1..Len(invs) : Return(i)
    \/ \E i \in 1..Len(invs), threw \in BOOLEAN : ThenCallback(i, threw)
    \/ \E i \in 1..Len(invs), threw \in BOOLEAN : CatchCallback(i, threw)

Spec == Init /\ [][Next]_vars

\* ------------------------------------- callbacks that call next themselves
\* Two requests go through one chain whose first handler is an arbitrary raw
\* callback: it may call the continuation itself, as a plain express handler
\* does, and then return nothing or a promise that never settles, or return
\* a promise that is settled by then. The handlers after it only respond:
\* they return undefined and call nothing. No callback the dispatcher calls
\* throws.
DirectRequests == {1, 2}
\* declared parameter counts of the first handler
DirectLengths == {0, 2, 3}
\* the handlers registered after it: an ordinary one and an error handler
Responders == {<<Fn("respond", 3), Fn("respond", 4)>>, <<Fn("respond", 4), Fn("respond", 3)>>}
DirectLists ==
    {<<Str("/foo"), Fn("handler", len)>> \o tail : len \in DirectLengths, tail \in Responders}
\* what the first handler returns: a promise, or a value that is no thenable
DirectReturnValues == ReturnValues \cup {Null, Obj("object", 0)}
\* the arguments a raw callback calls the continuation with
OwnArgs == {<<>>} \cup {<<R>> : R \in RejectReasons \cup {NoReasonError}}

\* the raw callback the invocation i runs
RawCallback(i) == stack[invs[i].layer].wrapper.handler

DirectInit ==
    /\ responseHandler \in ResponseOptions
    /\ errorHandler \in ErrorOptions
    /\ stack = <<>>
    /\ calls = 0
    /\ pos = [r \in DirectRequests |-> 0]
    /\ status = [r \in DirectRequests |-> "idle"]
    /\ invs = <<>>
    /\ outcome = NoCall
    /\ routes = <<>>
    /\ router = wrapRoute_router(wrapMethods(Fresh(RouterMethods \cup {"route"})))
    /\ peer = NoPeer

DirectNext ==
    \/ calls = 0 /\ \E args \in DirectLists : Register(args)
    \/ calls = 1 /\ \E r \in DirectRequests : StartRequest(r)
    \/ \E i \in 1..Len(invs), a \in OwnArgs :
          RawCallback(i).v = "handler" /\ OwnCall(i, a)
    \/ \E i \in 1..Len(invs), ret \in DirectReturnValues,
          settled \in {"none", "pending", "fulfilled", "rejected"},
          value \in ResolveValues \cup RejectReasons :
          /\ RawCallback(i).v = "respond" => ret = Undefined
          /\ invs[i].own # <<>> => ret = Undefined \/ settled = "pending"
          /\ settled = "pending" => invs[i].own # <<>>
          /\ CallHandler(i, ret, settled, value)
    \/ \E i \in 1..Len(invs) : Return(i)
    \/ \E i \in 1..Len(invs) : ThenCallback(i, FALSE)
    \/ \E i \in 1..Len(invs) : CatchCallback(i, FALSE)

DirectSpec == DirectInit /\ [][DirectNext]_vars

\* -------------------------------------------------------- router.route
\* wrapRoute intercepting the verbs but not 'all'
wrapRoute_verbsOnly(path, k, c) ==
    [obj |-> Obj("route", k), path |-> path, group |-> c, wrapped |-> httpMethods,
     table |-> InterceptEach(httpMethodList, Fresh(RouteOperations))]

\* wrapRoute: what the proxy of router.route returns for the k-th call: the
\* route object router.__route(path) made (its handlers form the group c),
\* with the operations wrapMethod has replaced on it (wrapped), and what
\* the public and private names of its operations hold after that (table)
wrapRoute(path, k, c) ==
    [obj |-> Obj("route", k), path |-> path, group |-> c,
     wrapped |-> httpMethods \cup {"all"},
     table |-> InterceptEach(httpMethodList \o <<"all">>, Fresh(RouteOperations))]

\* router.route(path)
route(path) ==
    LET made == wrapRoute(path, Len(routes) + 1, calls + 1)
    IN  /\ \A r \in DOMAIN status : status[r] = "idle"
        /\ calls' = calls + 1
        /\ routes' = Append(routes, made)
        /\ outcome' = [on |-> RouterObj, call |-> <<path>>, threw |-> FALSE,
                       msg |-> "", passed |-> <<path>>, returned |-> made.obj]
        /\ UNCHANGED <<responseHandler, errorHandler, router, peer, stack, pos, status, invs>>

\* the framework keeps a route's handlers at the place of the route: the
\* layers go behind those of the groups made before or with the group c
InsertLayers(layers, c) ==
    SelectSeq(stack, LAMBDA l : l.call <= c) \o layers
        \o SelectSeq(stack, LAMBDA l : l.call > c)

\* routes[k].obj[method](args): the proxy wrapMethod installed when the
\* operation is intercepted, the framework's own operation otherwise; either
\* way the route's operation returns the route
RouteRegister(k, method, args) ==
    LET rt == routes[k]
        out == IF method \in rt.wrapped THEN wrapMethod(args)
               ELSE [threw |-> FALSE, args |-> args]
    IN  /\ \A r \in DOMAIN status : status[r] = "idle"
        /\ method \in RouteOperations
        /\ stack' = IF out.threw THEN stack
                    ELSE InsertLayers(OriginalOperation(out.args, rt.group), rt.group)
        /\ outcome' = [on |-> rt.obj, call |-> args, threw |-> out.threw,
                       msg |-> IF out.threw THEN out.msg ELSE "",
                       passed |-> IF out.threw THEN <<>> ELSE out.args,
                       returned |-> IF out.threw THEN Undefined ELSE rt.obj]
        /\ UNCHANGED <<responseHandler, errorHandler, router, peer, calls, routes, pos, status, invs>>

\* Handlers are registered on the router and on routes, then one request
\* goes through the chain; every handler returns a promise that is settled
\* by then: resolved with "next" or "route", or rejected; no callback the
\* dispatcher calls throws.
RouteNext ==
    \/ Len(stack) < MaxLayers /\ \E h \in Handlers : Register(<<Str("/foo"), h>>)
    \/ Len(routes) < MaxRoutes /\ route(Str("/foo"))
    \/ \E k \in 1..Len(routes), method \in RouteOperations,
          hs \in HandlerLists(MaxLayers - Len(stack)) : RouteRegister(k, method, hs)
    \/ \E r \in Requests : StartRequest(r)
    \/ \E i \in 1..Len(invs), settled \in {"fulfilled", "rejected"},
          value \in Sentinels \cup {Str("boom")} :
          CallHandler(i, PromiseObj, settled, value)
    \/ \E i \in 1..Len(invs) : Return(i)
    \/ \E i \in 1..Len(invs) : ThenCallback(i, FALSE)
    \/ \E i \in 1..Len(invs) : CatchCallback(i, FALSE)

RouteSpec == Init /\ [][RouteNext]_vars

\* --------------------------------------------------------- router.param
\* the framework's own param operation: the callback becomes a parameter
\* layer for the name it is registered under
OriginalParam(args, c) ==
    LET fns == SelectSeq(args, LAMBDA x : TypeOf(x) = "function")
    IN  [k \in 1..Len(fns) |-> [wrapper |-> fns[k], call |-> c, param |-> args[1]]]

\* router.param(name, fn): the proxy wrapMethod installed for 'param'
RegisterParam(name, fn) ==
    LET args == <<name, fn>>
        out == wrapMethod(args)
    IN  /\ \A r \in DOMAIN status : status[r] = "idle"
        /\ calls' = calls + 1
        /\ stack' = IF out.threw THEN stack
                    ELSE stack \o OriginalParam(out.args, calls + 1)
        /\ outcome' = [on |-> RouterObj, call |-> args, threw |-> out.threw,
                       msg |-> IF out.threw THEN out.msg ELSE "",
                       passed |-> IF out.threw THEN <<>> ELSE out.args,
                       returned |-> IF out.threw THEN Undefined ELSE RouterObj]
        /\ UNCHANGED <<responseHandler, errorHandler, router, peer, routes, pos, status, invs>>

\* declared parameter counts of the parameter callback
ParamLengths == {0, 1, 2, 3, 4, 5}

\* A parameter callback is registered for the parameter id, then an ordinary
\* handler and an error handler; one request with a value for id goes through
\* them. The parameter callback returns a promise settled by then or a value
\* that is no promise; the handlers after it only respond. No callback the
\* dispatcher calls throws.
ParamNext ==
    \/ calls = 0 /\ \E len \in ParamLengths : RegisterParam(Str("id"), Fn("handler", len))
    \/ calls = 1 /\ \E tail \in Responders : Register(<<Str("/foo")>> \o tail)
    \/ calls = 2 /\ \E r \in Requests : StartRequest(r)
    \/ \E i \in 1..Len(invs), ret \in ReturnValues,
          settled \in {"none", "fulfilled", "rejected"},
          value \in ResolveValues \cup RejectReasons :
          /\ RawCallback(i).v = "respond" => ret = Undefined
          /\ CallHandler(i, ret, settled, value)
    \/ \E i \in 1..Len(invs) : Return(i)
    \/ \E i \in 1..Len(invs) : ThenCallback(i, FALSE)
    \/ \E i \in 1..Len(invs) : CatchCallback(i, FALSE)

ParamSpec == Init /\ [][ParamNext]_vars

\* ------------------------------------------------------ policy options
\* what a caller may put into the options for a policy: nothing, null, a
\* value that is no function, a function
PolicyValues(fn) == {Undefined, Null, Obj("object", 0), Str("send"), fn}

\* new PromiseRouter(options) with any value for the two policies
PolicyInit ==
    /\ responseHandler \in PolicyValues(Fn("responseHandler", 2))
    /\ errorHandler \in PolicyValues(Fn("errorHandler", 2))
    /\ stack = <<>>
    /\ calls = 0
    /\ pos = [r \in Requests |-> 0]
    /\ status = [r \in Requests |-> "idle"]
    /\ invs = <<>>
    /\ outcome = NoCall
    /\ routes = <<>>
    /\ router = wrapRoute_router(wrapMethods(Fresh(RouterMethods \cup {"route"})))
    /\ peer = NoPeer

\* A terminal handler is registered, then an ordinary and an error handler
\* that only respond; the terminal handler returns a promise settled by then;
\* the calls the dispatcher makes return or throw.
PolicyNext ==
    \/ calls = 0 /\ \E tail \in Responders :
          Register(<<Str("/foo"), Fn("handler", 2)>> \o tail)
    \/ calls = 1 /\ \E r \in Requests : StartRequest(r)
    \/ \E i \in 1..Len(invs), ret \in {Undefined, PromiseObj},
          settled \in {"none", "fulfilled", "rejected"},
          value \in ResolveValues \cup RejectReasons :
          /\ RawCallback(i).v = "respond" => ret = Undefined
          /\ CallHandler(i, ret, settled, value)
    \/ \E i \in 1..Len(invs) : Return(i)
    \/ \E i \in 1..Len(invs), threw \in BOOLEAN : ThenCallback(i, threw)
    \/ \E i \in 1..Len(invs), threw \in BOOLEAN : CatchCallback(i, threw)

PolicySpec == PolicyInit /\ [][PolicyNext]_vars

\* -------------------------------------------------------- two instances
\* A second PromiseRouter is made with options of its own, and the routers
\* of both instances are mounted one after the other, in either order.
PeerResponseOptions == {Undefined, Fn("peerResponseHandler", 2)}
PeerErrorOptions == {Undefined, Fn("peerErrorHandler", 2)}
\* the router of the second instance
PeerRouterObj == Obj("peerRouter", 0)
\* a wrapper is an arrow function: it keeps the instance whose wrapHandler
\* made it as its this; those of the second instance are marked
PeerWrapper(w) == IF TypeOf(w) = "function" THEN w @@ [this |-> "peer"] ELSE w
\* the wrapper of the invocation i was made by the second instance
OwnedByPeer(i) == "this" \in DOMAIN stack[invs[i].layer].wrapper

\* handlePromiseResult of the second instance
peer_handlePromiseResult(result, res, next, handleResponse) ==
    IF result = Str("next") THEN <<Call(next, <<>>)>>
    ELSE IF result = Str("route") THEN <<Call(next, <<Str("route")>>)>>
    ELSE IF TypeOf(peer.responseHandler) = "function" /\ handleResponse
    THEN <<Call(peer.responseHandler, <<res, result>>)>>
    ELSE <<>>

\* handleError reading the error policy from one place for all instances
peer_handleError_shared(error, res, next) ==
    LET e == IF ~Truthy(error) THEN NoReasonError ELSE error
    IN  IF TypeOf(errorHandler) = "function"
        THEN Call(errorHandler, <<res, e>>)
        ELSE Call(next, <<e>>)

\* handleError of the second instance
peer_handleError(error, res, next) ==
    LET e == IF ~Truthy(error) THEN NoReasonError ELSE error
    IN  IF TypeOf(peer.errorHandler) = "function"
        THEN Call(peer.errorHandler, <<res, e>>)
        ELSE Call(next, <<e>>)

\* a registration call on the router of the second instance
PeerRegister(args) ==
    LET out == wrapMethod(args)
        passed == IF out.threw THEN <<>>
                  ELSE [k \in 1..Len(out.args) |-> PeerWrapper(out.args[k])]
    IN  /\ \A r \in DOMAIN status : status[r] = "idle"
        /\ calls' = calls + 1
        /\ stack' = stack \o OriginalOperation(passed, calls + 1)
        /\ outcome' = [on |-> PeerRouterObj, call |-> args, threw |-> out.threw,
                       msg |-> IF out.threw THEN out.msg ELSE "",
                       passed |-> passed,
                       returned |-> IF out.threw THEN Undefined ELSE PeerRouterObj]
        /\ UNCHANGED <<responseHandler, errorHandler, router, peer, routes, pos, status, invs>>

\* the fulfilment callback of a wrapper of the second instance
PeerThenCallback(i, threw) ==
    LET inv == invs[i]
        cs == peer_handlePromiseResult(inv.value, inv.res, inv.next, inv.handleResponse)
    IN  /\ Quiet
        /\ OwnedByPeer(i)
        /\ inv.task = "then"
        /\ inv.promise = "fulfilled"
        /\ IF cs = <<>>
           THEN /\ ~threw
                /\ invs' = [invs EXCEPT ![i].task = "done"]
                /\ UNCHANGED <<pos, status>>
           ELSE MakeCall(i, cs[1], threw,
                    [inv EXCEPT !.log = Append(@, Logged(cs[1], threw)),
                                !.task = IF threw THEN "catch" ELSE "done",
                                !.reason = IF threw THEN Exception(cs[1]) ELSE @])
        /\ UNCHANGED <<responseHandler, errorHandler, router, peer, stack, calls, outcome, routes>>

\* the rejection callback of a wrapper of the second instance
PeerCatchCallback(i, threw) ==
    LET inv == invs[i]
        error == IF inv.task = "catch" THEN inv.reason ELSE inv.value
        c == peer_handleError(error, inv.res, inv.next)
    IN  /\ Quiet
        /\ OwnedByPeer(i)
        /\ \/ inv.task = "catch"
           \/ inv.task = "then" /\ inv.promise = "rejected"
        /\ MakeCall(i, c, threw,
               [inv EXCEPT !.log = Append(@, Logged(c, threw)),
                           !.task = "done", !.reason = error, !.unhandled = threw])
        /\ UNCHANGED <<responseHandler, errorHandler, router, peer, stack, calls, outcome, routes>>

PeerInit ==
    /\ responseHandler \in ResponseOptions
    /\ errorHandler \in ErrorOptions
    /\ peer \in [responseHandler : PeerResponseOptions, errorHandler : PeerErrorOptions]
    /\ router = wrapRoute_router(wrapMethods(Fresh(RouterMethods \cup {"route"})))
    /\ stack = <<>>
    /\ calls = 0
    /\ pos = [r \in DirectRequests |-> 0]
    /\ status = [r \in DirectRequests |-> "idle"]
    /\ invs = <<>>
    /\ outcome = NoCall
    /\ routes = <<>>

\* the values the handlers' promises are settled with
PeerValues == {Str("next"), Str("data"), Str("boom")}

\* Each instance gets one terminal handler; two requests go through the
\* chain; every handler returns a pending promise, and the promises are
\* settled later in any order; nothing the dispatcher calls throws.
PeerNext ==
    \/ /\ calls = 0 \/ (calls = 1 /\ outcome.on = PeerRouterObj)
       /\ Register(<<Str("/foo"), Fn("handler", 2)>>)
    \/ /\ calls = 0 \/ (calls = 1 /\ outcome.on = RouterObj)
       /\ PeerRegister(<<Str("/foo"), Fn("handler", 2)>>)
    \/ calls = 2 /\ \E r \in DirectRequests : StartRequest(r)
    \/ \E i \in 1..Len(invs) : CallHandler(i, PromiseObj, "pending", Undefined)
    \/ \E i \in 1..Len(invs), settled \in {"fulfilled", "rejected"}, value \in PeerValues :
          Settle(i, settled, value)
    \/ \E i \in 1..Len(invs) : Return(i)
    \/ \E i \in 1..Len(invs) : ~OwnedByPeer(i) /\ ThenCallback(i, FALSE)
    \/ \E i \in 1..Len(invs) : ~OwnedByPeer(i) /\ CatchCallback(i, FALSE)
    \/ \E i \in 1..Len(invs) : PeerThenCallback(i, FALSE)
    \/ \E i \in 1..Len(invs) : PeerCatchCallback(i, FALSE)

PeerSpec == PeerInit /\ [][PeerNext]_vars

\* ------------------------------------------------- the compiled build
\* src/dist/express-promise-router.js, compiled from an earlier state of the
\* source: its normalizer and its dispatcher, and the router running them.

\* wrapHandler of the compiled build: the arms are length 2, length 3, else
dist_wrapHandler(handler) ==
    IF "function" # TypeOf(handler)
    THEN [threw |-> TRUE,
          msg |-> "Expected a callback function but got a " \o ObjectToString(handler)]
    ELSE IF handler.n = 2
    THEN [threw |-> FALSE, wrappedHandler |-> Wrapper(handler, "two", 3)]
    ELSE IF handler.n = 3
    THEN [threw |-> FALSE, wrappedHandler |-> Wrapper(handler, "other", 3)]
    ELSE [threw |-> FALSE, wrappedHandler |-> Wrapper(handler, "four", 4)]

\* the wrappers of the compiled build: the four-parameter one adjusts with
\* res = req; next = res
dist_wrappedHandler(w, args) ==
    IF w.branch = "two"
    THEN [handlerArgs |-> <<Arg(args, 1), Arg(args, 2), Arg(args, 3)>>,
          res |-> Arg(args, 2), next |-> Arg(args, 3), handleResponse |-> TRUE]
    ELSE IF w.branch = "four"
    THEN [handlerArgs |-> <<Arg(args, 1), Arg(args, 2), Arg(args, 3), Arg(args, 4)>>,
          res |-> IF "string" = TypeOf(Arg(args, 4)) THEN Arg(args, 2) ELSE Arg(args, 3),
          next |-> IF "string" = TypeOf(Arg(args, 4)) THEN Arg(args, 2) ELSE Arg(args, 4),
          handleResponse |-> FALSE]
    ELSE [handlerArgs |-> <<Arg(args, 1), Arg(args, 2), Arg(args, 3)>>,
          res |-> Arg(args, 2), next |-> Arg(args, 3), handleResponse |-> FALSE]

\* handlePromiseResult of the compiled build: this.responseHandler !== null
dist_handlePromiseResult(result, res, next, handleResponse) ==
    IF result = Str("next") THEN <<Call(next, <<>>)>>
    ELSE IF result = Str("route") THEN <<Call(next, <<Str("route")>>)>>
    ELSE IF responseHandler # Null /\ handleResponse
    THEN <<Call(responseHandler, <<res, result>>)>>
    ELSE <<>>

\* handleError of the compiled build: this.errorHandler !== null, and the
\* reason is passed on as it is
dist_handleError(error, res, next) ==
    IF errorHandler # Null
    THEN Call(errorHandler, <<res, error>>)
    ELSE Call(next, <<error>>)

RECURSIVE dist_MapWrap(_)
dist_MapWrap(flat) ==
    IF flat = <<>> THEN <<>>
    ELSE <<dist_wrapHandler(Head(flat)).wrappedHandler>> \o dist_MapWrap(Tail(flat))

\* the proxy wrapMethod installs in the compiled build
dist_wrapMethod(args) ==
    LET remove == shouldRemoveFirstArg(args)
        first == IF remove THEN args[1] ELSE Null
        rest == IF remove THEN Tail(args) ELSE args
        flat == flattenDeep(rest)
        bad == {k \in 1..Len(flat) : dist_wrapHandler(flat[k]).threw}
    IN  IF ~isString(Arg(args, 1)) /\ ~isRegExp(Arg(args, 1)) /\ IndexThrows(Arg(args, 1))
        THEN [threw |-> TRUE, msg |-> "TypeError: Cannot read property '0'"]
        ELSE IF bad # {}
        THEN [threw |-> TRUE,
              msg |-> dist_wrapHandler(flat[CHOOSE k \in bad : \A j \in bad : k <= j]).msg]
        ELSE [threw |-> FALSE,
              args |-> IF Truthy(first) THEN <<first>> \o dist_MapWrap(flat)
                       ELSE dist_MapWrap(flat)]

\* a registration call on a router of the compiled build; param tells
\* router.param(name, fn) from the other operations
dist_Register(args, param) ==
    LET out == dist_wrapMethod(args)
    IN  /\ \A r \in DOMAIN status : status[r] = "idle"
        /\ calls' = calls + 1
        /\ stack' = IF out.threw THEN stack
                    ELSE IF param THEN stack \o OriginalParam(out.args, calls + 1)
                    ELSE stack \o OriginalOperation(out.args, calls + 1)
        /\ outcome' = [on |-> RouterObj, call |-> args, threw |-> out.threw,
                       msg |-> IF out.threw THEN out.msg ELSE "",
                       passed |-> IF out.threw THEN <<>> ELSE out.args,
                       returned |-> IF out.threw THEN Undefined ELSE RouterObj]
        /\ UNCHANGED <<responseHandler, errorHandler, router, peer, routes, pos, status, invs>>

\* a wrapper of the compiled build runs up to the return of handleReturn
dist_CallHandler(i, ret, settled, value) ==
    LET inv == invs[i]
        ctx == dist_wrappedHandler(stack[inv.layer].wrapper, inv.args)
        hr == handleReturn(ret, ctx.res, ctx.next, ctx.handleResponse)
    IN  /\ inv.phase = "called"
        /\ Running(i)
        /\ IF isPromise(ret)
           THEN \/ settled = "fulfilled" /\ value \in ResolveValues
                \/ settled = "rejected" /\ value \in RejectReasons
           ELSE settled = "none" /\ value = Undefined
        /\ invs' = [invs EXCEPT ![i] =
                      [inv EXCEPT !.phase = "handled", !.handlerArgs = ctx.handlerArgs,
                                  !.ret = hr.ret, !.res = hr.res,
                                  !.next = hr.next, !.handleResponse = hr.handleResponse,
                                  !.task = hr.task, !.promise = settled, !.value = value]]
        /\ UNCHANGED <<responseHandler, errorHandler, router, peer, stack, calls, outcome,
                       routes, pos, status>>

\* the fulfilment callback of the compiled build; a call of what is no
\* function throws, no other call does
dist_ThenCallback(i) ==
    LET inv == invs[i]
        cs == dist_handlePromiseResult(inv.value, inv.res, inv.next, inv.handleResponse)
        threw == cs # <<>> /\ TypeOf(cs[1].callee) # "function"
    IN  /\ Quiet
        /\ inv.task = "then"
        /\ inv.promise = "fulfilled"
        /\ IF cs = <<>>
           THEN /\ invs' = [invs EXCEPT ![i].task = "done"]
                /\ UNCHANGED <<pos, status>>
           ELSE MakeCall(i, cs[1], threw,
                    [inv EXCEPT !.log = Append(@, Logged(cs[1], threw)),
                                !.task = IF threw THEN "catch" ELSE "done",
                                !.reason = IF threw THEN Exception(cs[1]) ELSE @])
        /\ UNCHANGED <<responseHandler, errorHandler, router, peer, stack, calls, outcome, routes>>

\* the rejection callback of the compiled build
dist_CatchCallback(i) ==
    LET inv == invs[i]
        error == IF inv.task = "catch" THEN inv.reason ELSE inv.value
        c == dist_handleError(error, inv.res, inv.next)
        threw == TypeOf(c.callee) # "function"
    IN  /\ Quiet
        /\ \/ inv.task = "catch"
           \/ inv.task = "then" /\ inv.promise = "rejected"
        /\ MakeCall(i, c, threw,
               [inv EXCEPT !.log = Append(@, Logged(c, threw)),
                           !.task = "done", !.reason = error, !.unhandled = threw])
        /\ UNCHANGED <<responseHandler, errorHandler, router, peer, stack, calls, outcome, routes>>

\* new PromiseRouter(options) of the compiled build: a policy is left out,
\* given as null, or a function
DistInit ==
    /\ responseHandler \in ResponseOptions \cup {Null}
    /\ errorHandler \in ErrorOptions \cup {Null}
    /\ stack = <<>>
    /\ calls = 0
    /\ pos = [r \in Requests |-> 0]
    /\ status = [r \in Requests |-> "idle"]
    /\ invs = <<>>
    /\ outcome = NoCall
    /\ routes = <<>>
    /\ router = wrapRoute_router(wrapMethods(Fresh(RouterMethods \cup {"route"})))
    /\ peer = NoPeer

\* On a router of the compiled build, a handler of any class and an error
\* handler are registered, or a parameter callback, then an ordinary and an
\* error handler that only respond; one request goes through them. A handler
\* returns a promise settled by then, or a value that is no promise.
DistNext ==
    \/ calls = 0 /\ \E len \in DirectLengths :
          dist_Register(<<Str("/foo"), Fn("handler", len), Fn("handler", 4)>>, FALSE)
    \/ calls = 0 /\ \E len \in {3, 4} :
          dist_Register(<<Str("id"), Fn("handler", len)>>, TRUE)
    \/ calls = 1 /\ \E tail \in Responders : dist_Register(<<Str("/foo")>> \o tail, FALSE)
    \/ calls = 2 /\ \E r \in Requests : StartRequest(r)
    \/ \E i \in 1..Len(invs), ret \in {Undefined, PromiseObj},
          settled \in {"none", "fulfilled", "rejected"},
          value \in ResolveValues \cup RejectReasons :
          /\ RawCallback(i).v = "respond" => ret = Undefined
          /\ dist_CallHandler(i, ret, settled, value)
    \/ \E i \in 1..Len(invs) : Return(i)
    \/ \E i \in 1..Len(invs) : dist_ThenCallback(i)
    \/ \E i \in 1..Len(invs) : dist_CatchCallback(i)

DistSpec == DistInit /\ [][DistNext]_vars

\* --------------------------------------------------------- re-wrapping
\* how many proxies are made for one operation
MaxWraps == 2
\* the error of a recursion that exhausts the call stack
RangeErr == "RangeError: Maximum call stack size exceeded"

\* this.wrapMethod(method, this.router) once more, for an operation the
\* constructor has intercepted
Rewrap(method) ==
    /\ calls = 0
    /\ router.pub[method].gen < MaxWraps
    /\ router' = Intercept(method, router)
    /\ UNCHANGED <<responseHandler, errorHandler, peer, stack, calls, pos, status, invs,
                   outcome, routes>>

\* router[method](args): the proxy under the public name wraps the handlers
\* and calls what the private name holds at that moment. That is the
\* framework's operation after one wrapMethod. After a second one it is the
\* first proxy, which wraps what it is given and calls what the private name
\* holds, itself, with no way out but the exhaustion of the call stack; an
\* argument list wrapHandler rejects throws in the first proxy before that.
Invoke(method, args) ==
    IF router.priv[method] = Original(method)
    THEN Register(args)
    ELSE LET out == wrapMethod(args)
         IN  /\ \A r \in DOMAIN status : status[r] = "idle"
             /\ calls' = calls + 1
             /\ outcome' = [on |-> RouterObj, call |-> args, threw |-> TRUE,
                            msg |-> IF out.threw THEN out.msg ELSE RangeErr,
                            passed |-> <<>>, returned |-> Undefined]
             /\ UNCHANGED <<responseHandler, errorHandler, router, peer, stack, routes,
                            pos, status, invs>>

\* The router is made, wrapMethod may be applied again to some of its
\* operations, then one registration call is made and a request is served;
\* the handlers return promises settled by then, and nothing the dispatcher
\* calls throws.
WrapNext ==
    \/ \E method \in {"get", "use"} : Rewrap(method)
    \/ calls = 0 /\ \E method \in {"get", "use"}, sel \in Selectors,
          hs \in HandlerLists(MaxLayers) \cup {<<Null>>} : Invoke(method, <<sel>> \o hs)
    \/ \E r \in Requests : StartRequest(r)
    \/ \E i \in 1..Len(invs), settled \in {"fulfilled", "rejected"},
          value \in Sentinels \cup {Str("boom")} :
          CallHandler(i, PromiseObj, settled, value)
    \/ \E i \in 1..Len(invs) : Return(i)
    \/ \E i \in 1..Len(invs) : ThenCallback(i, FALSE)
    \/ \E i \in 1..Len(invs) : CatchCallback(i, FALSE)

WrapSpec == Init /\ [][WrapNext]_vars

\* ------------------------------------------------ callbacks that throw
\* the wrapper catching what the raw callback throws and handing it to
\* handleError as a rejection would be
Throw_caught(i) ==
    LET inv == invs[i]
        ctx == wrappedHandler(stack[inv.layer].wrapper, inv.args)
    IN  /\ inv.phase = "called"
        /\ Running(i)
        /\ inv.own = <<>>
        /\ invs' = [invs EXCEPT ![i] =
                      [inv EXCEPT !.phase = "handled", !.handlerArgs = ctx.handlerArgs,
                                  !.res = ctx.res, !.next = ctx.next,
                                  !.handleResponse = ctx.handleResponse,
                                  !.task = "catch", !.reason = Thrown]]
        /\ UNCHANGED <<responseHandler, errorHandler, router, peer, stack, calls, outcome, routes, pos, status>>

\* const ret = handler(...) throws: no arm of wrapHandler has a try/catch,
\* so the exception leaves the wrapper before handleReturn is reached. The
\* framework catches what a layer throws and goes on with it as the error.
Throw(i) ==
    LET inv == invs[i]
        ctx == wrappedHandler(stack[inv.layer].wrapper, inv.args)
    IN  /\ inv.phase = "called"
        /\ Running(i)
        /\ inv.own = <<>>
        /\ Continue(inv.req, <<Thrown>>, 0,
               [invs EXCEPT ![i] =
                   [inv EXCEPT !.phase = "returned", !.handlerArgs = ctx.handlerArgs,
                               !.escaped = Thrown]])
        /\ UNCHANGED <<responseHandler, errorHandler, router, peer, stack, calls, outcome, routes>>

\* A handler of any class and an error handler are registered, then an
\* ordinary and an error handler that only respond. Either of the first two
\* may throw instead of returning; otherwise it returns a promise settled by
\* then, or a value that is no promise. No callback the dispatcher calls
\* throws.
ThrowNext ==
    \/ calls = 0 /\ \E len \in DirectLengths :
          Register(<<Str("/foo"), Fn("handler", len), Fn("handler", 4)>>)
    \/ calls = 1 /\ \E tail \in Responders : Register(<<Str("/foo")>> \o tail)
    \/ calls = 2 /\ \E r \in Requests : StartRequest(r)
    \/ \E i \in 1..Len(invs) : RawCallback(i).v = "handler" /\ Throw(i)
    \/ \E i \in 1..Len(invs), ret \in ReturnValues,
          settled \in {"none", "fulfilled", "rejected"},
          value \in ResolveValues \cup RejectReasons :
          /\ RawCallback(i).v = "respond" => ret = Undefined
          /\ CallHandler(i, ret, settled, value)
    \/ \E i \in 1..Len(invs) : Return(i)
    \/ \E i \in 1..Len(invs) : ThenCallback(i, FALSE)
    \/ \E i \in 1..Len(invs) : CatchCallback(i, FALSE)

ThrowSpec == Init /\ [][ThrowNext]_vars

\* ------------------------------------------------------- error handlers
\* An ordinary handler and an error handler are registered together, then an
\* ordinary and an error handler that only respond. The first handler passes
\* an error on, by calling next(error) itself or by returning a promise that
\* rejects, or resolves its promise; the error handler invoked with the error
\* returns a promise settled by then or a value that is no promise. No
\* callback the dispatcher calls throws.
ErrorNext ==
    \/ calls = 0 /\ Register(<<Str("/foo"), Fn("handler", 3), Fn("handler", 4)>>)
    \/ calls = 1 /\ \E tail \in Responders : Register(<<Str("/foo")>> \o tail)
    \/ calls = 2 /\ \E r \in Requests : StartRequest(r)
    \/ \E i \in 1..Len(invs) :
          RawCallback(i) = Fn("handler", 3) /\ OwnCall(i, <<Str("boom")>>)
    \/ \E i \in 1..Len(invs), ret \in ReturnValues,
          settled \in {"none", "fulfilled", "rejected"},
          value \in ResolveValues \cup RejectReasons :
          /\ RawCallback(i).v = "respond" \/ invs[i].own # <<>> => ret = Undefined
          /\ CallHandler(i, ret, settled, value)
    \/ \E i \in 1..Len(invs) : Return(i)
    \/ \E i \in 1..Len(invs) : ThenCallback(i, FALSE)
    \/ \E i \in 1..Len(invs) : CatchCallback(i, FALSE)

ErrorSpec == Init /\ [][ErrorNext]_vars

\* ------------------------------------------------- registration calls
\* The intercepted operation is called with every shape of argument list:
\* with or without a leading path selector, with callbacks, nested sequences
\* of callbacks and values that are no callbacks.
h1 == Fn("h1", 2)
h2 == Fn("h2", 3)
\* the leading selectors tried
RegSelectors ==
    {Str("/foo"), Str(""), RegExp, Arr(<<Str("/a"), Str("/b")>>), Arr(<<RegExp, Str("/b")>>),
     Arr(<<Arr(<<Str("/a")>>), Str("/b")>>), Arr(<<Str("/a"), h1>>)}
\* the values tried in handler position
RegItems ==
    {h1, h2, Arr(<<h1, Arr(<<h2>>)>>), Arr(<<Arr(<<h1>>), Arr(<<h2>>)>>),
     Null, Undefined, Num(5), Obj("object", 0), Arr(<<h1, Arr(<<Null>>)>>)}
RegLists == UNION {[1..m -> RegItems] : m \in 0..2}
RegInputs == RegLists \cup {<<sel>> \o items : sel \in RegSelectors, items \in RegLists}

\* a router made without options
RegisterInit ==
    /\ responseHandler = Undefined
    /\ errorHandler = Undefined
    /\ stack = <<>>
    /\ calls = 0
    /\ pos = [r \in Requests |-> 0]
    /\ status = [r \in Requests |-> "idle"]
    /\ invs = <<>>
    /\ outcome = NoCall
    /\ routes = <<>>
    /\ router = wrapRoute_router(wrapMethods(Fresh(RouterMethods \cup {"route"})))
    /\ peer = NoPeer

RegisterNext == calls < MaxCalls /\ \E args \in RegInputs : Register(args)

RegisterSpec == RegisterInit /\ [][RegisterNext]_vars

\* ================================================================ claims
Invocations == 1..Len(invs)
\* the declared parameter count of the raw callback invocation i runs
RawLength(i) == stack[invs[i].layer].wrapper.handler.n
FulfilledWith(i, V) == invs[i].promise = "fulfilled" /\ invs[i].value \in V
Rejected(i) == invs[i].promise = "rejected"
\* the promise callbacks of invocation i have all run
Finished(i) == invs[i].task = "done"
\* the fulfilment callback of invocation i has run
Dispatched(i) == invs[i].task \in {"catch", "done"}
\* the invocations the dispatcher of invocation i caused
Children(i) == {j \in Invocations : invs[j].cause = i}
IsCall(e, callee, args) == e.callee = callee /\ e.args = args
SentinelArgs(v) == IF v = Str("next") THEN <<>> ELSE <<Str("route")>>
\* the error handleError reports for the rejection reason R
Reported(R) == IF Truthy(R) THEN R ELSE NoReasonError
ResponsePolicySet == TypeOf(responseHandler) = "function"
ErrorPolicySet == TypeOf(errorHandler) = "function"

\* C1 (as claimed): a 3-parameter handler whose promise resolves with "next"
\* has its continuation called exactly once, with no argument, and no policy
\* called. Refuted: when that call of the continuation throws, the exception
\* reaches handleError, which calls the error policy or the continuation again.
C1_NextExactlyOnce ==
    \A i \in Invocations :
        RawLength(i) = 3 /\ FulfilledWith(i, {Str("next")}) =>
            /\ Len(invs[i].log) <= 1
            /\ \A k \in 1..Len(invs[i].log) :
                   IsCall(invs[i].log[k], NextFn(invs[i].req), <<>>)
            /\ Finished(i) => Len(invs[i].log) = 1

\* C2 (as claimed): a handler with a continuation whose promise resolves with
\* "route" has the continuation called exactly once, with "route"; no other
\* handler of its registration is invoked and the next registration is.
\* Refuted like C1 when the call of the continuation throws.
C2_RouteExactlyOnce ==
    \A i \in Invocations :
        IsContinuation(invs[i].next) /\ FulfilledWith(i, {Str("route")}) =>
            /\ Len(invs[i].log) <= 1
            /\ \A k \in 1..Len(invs[i].log) :
                   IsCall(invs[i].log[k], NextFn(invs[i].req), <<Str("route")>>)
            /\ Finished(i) => Len(invs[i].log) = 1
            /\ \A j \in Children(i) :
                   stack[invs[j].layer].call # stack[invs[i].layer].call
            /\ Finished(i) =>
                   \A k \in (invs[i].layer + 1)..Len(stack) :
                       (/\ stack[k].call # stack[invs[i].layer].call
                        /\ Matches(stack[k], Undefined)
                        /\ \A m \in (invs[i].layer + 1)..(k - 1) :
                               stack[m].call = stack[invs[i].layer].call
                               \/ ~Matches(stack[m], Undefined))
                       => \E j \in Children(i) : invs[j].layer = k

\* C3: a 3-parameter handler whose promise resolves with anything but "next"
\* and "route" gets no call at all from the dispatcher: no continuation, no
\* response policy (configured or not), and so no later handler.
C3_OtherValueNoOp ==
    \A i \in Invocations :
        RawLength(i) = 3 /\ FulfilledWith(i, ResolveValues \ Sentinels) =>
            invs[i].log = <<>> /\ Children(i) = {}

\* C3 witness: such a promise was dispatched on a router with a response policy
C3_Witness ==
    \E i \in Invocations :
        /\ RawLength(i) = 3 /\ FulfilledWith(i, {Str("data")}) /\ Finished(i)
        /\ ResponsePolicySet

\* C4 (as claimed): a 2-parameter handler whose promise resolves with V other
\* than "next" and "route" never has its continuation called; the response
\* policy is called exactly once with (res, V) when configured, never
\* otherwise. Refuted: when the response policy throws, the exception reaches
\* handleError, which calls the continuation (or the error policy).
C4_TerminalValue ==
    \A i \in Invocations :
        RawLength(i) = 2 /\ FulfilledWith(i, ResolveValues \ Sentinels) =>
            /\ \A k \in 1..Len(invs[i].log) : ~IsContinuation(invs[i].log[k].callee)
            /\ Len(invs[i].log) <= 1
            /\ Finished(i) =>
                   invs[i].log =
                       IF ResponsePolicySet
                       THEN <<Logged(Call(responseHandler,
                                          <<Res(invs[i].req), invs[i].value>>), FALSE)>>
                       ELSE <<>>

\* C5 (as claimed): for a 2-parameter handler whose promise resolves with
\* "next" or "route" the continuation is not called and the chain does not
\* advance.
C5_TerminalNeverAdvances ==
    \A i \in Invocations :
        RawLength(i) = 2 /\ FulfilledWith(i, Sentinels) =>
            /\ \A k \in 1..Len(invs[i].log) : ~IsContinuation(invs[i].log[k].callee)
            /\ Children(i) = {}

\* C5 (amended): a 2-parameter handler keeps the framework's continuation:
\* when its promise resolves with "next" (respectively "route") the first
\* call the dispatcher makes is the continuation with no argument
\* (respectively with "route"), and the chain advances to the layer the
\* framework selects, or the request leaves the router.
C5_TerminalAdvances ==
    \A i \in Invocations :
        RawLength(i) = 2 /\ FulfilledWith(i, Sentinels) /\ Dispatched(i) =>
            /\ Len(invs[i].log) >= 1
            /\ IsCall(invs[i].log[1], NextFn(invs[i].req), SentinelArgs(invs[i].value))
            /\ IF invs[i].log[1].to <= Len(stack)
               THEN \E j \in Children(i) : invs[j].layer = invs[i].log[1].to
               ELSE status[invs[i].req] = "finished"

\* C5 witness: a 2-parameter handler resolved with "next" and a later handler
\* was invoked for it
C5_Witness ==
    \E i \in Invocations :
        /\ RawLength(i) = 2 /\ FulfilledWith(i, {Str("next")}) /\ Finished(i)
        /\ Children(i) # {}

\* the invocations of the layer k made for request r
InvocationsOf(r, k) == {j \in Invocations : invs[j].req = r /\ invs[j].layer = k}

\* C6: on a router with a response policy, a 2-parameter handler whose promise
\* resolves with "next" (respectively "route") never triggers the response
\* policy, and the next handler of the chain (respectively the first matching
\* handler of a later registration) is invoked exactly once.
C6_SentinelSkipsResponsePolicy ==
    \A i \in Invocations :
        ResponsePolicySet /\ RawLength(i) = 2 /\ FulfilledWith(i, Sentinels) =>
            /\ \A k \in 1..Len(invs[i].log) : invs[i].log[k].callee # responseHandler
            /\ Dispatched(i) =>
                   LET first == invs[i].log[1]
                   IN  /\ IsCall(first, NextFn(invs[i].req), SentinelArgs(invs[i].value))
                       /\ first.to <= Len(stack) =>
                              /\ Cardinality(InvocationsOf(invs[i].req, first.to)) = 1
                              /\ first.to > invs[i].layer
                              /\ invs[i].value = Str("route") =>
                                     stack[first.to].call # stack[invs[i].layer].call

\* C6 witness: with a response policy configured, a 2-parameter handler
\* resolved with "route" and a handler of a later registration was invoked
C6_Witness ==
    \E i \in Invocations :
        /\ ResponsePolicySet /\ RawLength(i) = 2
        /\ FulfilledWith(i, {Str("route")}) /\ Finished(i)
        /\ \E j \in Children(i) : stack[invs[j].layer].call # stack[invs[i].layer].call

\* C7 (as claimed): with an error policy configured, a promise rejected with R
\* has the error policy called exactly once with (res, R), for every R.
C7_ErrorPolicyGetsReason ==
    \A i \in Invocations :
        ErrorPolicySet /\ Rejected(i) /\ Finished(i) =>
            /\ Len(invs[i].log) = 1
            /\ IsCall(invs[i].log[1], errorHandler, <<Res(invs[i].req), invs[i].value>>)

\* C7 (amended): with an error policy configured, a promise rejected with R
\* has the error policy called exactly once, with (res, R) when R is truthy
\* and with (res, the substitute Error) when R is falsy; the continuation is
\* never called and no later handler of the chain is invoked.
C7_ErrorPolicyGetsReported ==
    \A i \in Invocations :
        ErrorPolicySet /\ Rejected(i) =>
            /\ \A k \in 1..Len(invs[i].log) : ~IsContinuation(invs[i].log[k].callee)
            /\ Children(i) = {}
            /\ Len(invs[i].log) <= 1
            /\ Finished(i) =>
                   /\ Len(invs[i].log) = 1
                   /\ IsCall(invs[i].log[1], errorHandler,
                             <<Res(invs[i].req), Reported(invs[i].value)>>)

\* C7 witness: an error policy handled a rejection without a reason while a
\* later handler was registered
C7_Witness ==
    \E i \in Invocations :
        /\ ErrorPolicySet /\ Rejected(i) /\ invs[i].value = Null /\ Finished(i)
        /\ invs[i].layer < Len(stack)

\* C8 (as claimed): with no error policy, a promise rejected with R has the
\* continuation called exactly once with R itself, for every R.
C8_ContinuationGetsReason ==
    \A i \in Invocations :
        ~ErrorPolicySet /\ Rejected(i) =>
            /\ Len(invs[i].log) <= 1
            /\ Finished(i) =>
                   /\ Len(invs[i].log) = 1
                   /\ IsCall(invs[i].log[1], NextFn(invs[i].req), <<invs[i].value>>)

\* C8 (amended): with no error policy, for every handler class a promise
\* rejected with R has the continuation called exactly once, with R when R is
\* truthy and with the substitute Error when R is falsy; the rejection is
\* never reported a second time.
C8_ContinuationGetsReported ==
    \A i \in Invocations :
        ~ErrorPolicySet /\ Rejected(i) =>
            /\ Len(invs[i].log) <= 1
            /\ Finished(i) =>
                   /\ Len(invs[i].log) = 1
                   /\ IsCall(invs[i].log[1], NextFn(invs[i].req),
                             <<Reported(invs[i].value)>>)

\* C8 witness: with no error policy, a rejection without a reason and one with
\* a reason were both reported, by handlers of different classes
C8_Witness ==
    \E i, j \in Invocations :
        /\ ~ErrorPolicySet /\ RawLength(i) # RawLength(j)
        /\ Rejected(i) /\ invs[i].value = Undefined /\ Finished(i)
        /\ Rejected(j) /\ invs[j].value = Str("boom") /\ Finished(j)

\* C9 (as claimed): with no error policy, the rejection of a 2-parameter
\* handler's promise is lost: the dispatcher calls nothing.
C9_TerminalRejectionLost ==
    \A i \in Invocations :
        RawLength(i) = 2 /\ ~ErrorPolicySet /\ Rejected(i) => invs[i].log = <<>>

\* C9 (amended): with no error policy, the rejection of a 2-parameter
\* handler's promise is not lost: the continuation the framework supplied is
\* called exactly once with the reason (the substitute Error for a falsy
\* reason), and no policy is called.
C9_TerminalRejectionReported ==
    \A i \in Invocations :
        RawLength(i) = 2 /\ ~ErrorPolicySet /\ Rejected(i) /\ Finished(i) =>
            /\ invs[i].next = NextFn(invs[i].req)
            /\ Len(invs[i].log) = 1
            /\ IsCall(invs[i].log[1], NextFn(invs[i].req), <<Reported(invs[i].value)>>)

\* C9 witness: a 2-parameter handler's promise rejected with a reason on a
\* router without an error policy, and the rejection was dispatched
C9_Witness ==
    \E i \in Invocations :
        /\ RawLength(i) = 2 /\ ~ErrorPolicySet
        /\ Rejected(i) /\ invs[i].value = Str("boom") /\ Finished(i)

\* C10: with no error policy, a promise rejected with null or undefined has
\* the continuation called exactly once with a non-empty error value, so only
\* error handlers are invoked after it (with that error), never a handler of
\* the normal path.
C10_NoReasonTakesErrorPath ==
    \A i \in Invocations :
        ~ErrorPolicySet /\ Rejected(i) /\ invs[i].value \in {Null, Undefined} =>
            /\ Len(invs[i].log) <= 1
            /\ Finished(i) =>
                   /\ Len(invs[i].log) = 1
                   /\ invs[i].log[1].callee = NextFn(invs[i].req)
                   /\ Len(invs[i].log[1].args) = 1
                   /\ Truthy(invs[i].log[1].args[1])
                   /\ invs[i].log[1].args[1] # Str("route")
            /\ \A j \in Children(i) :
                   /\ stack[invs[j].layer].wrapper.n = 4
                   /\ invs[j].args[1] = invs[i].log[1].args[1]

\* C10 witness: a rejection without a reason reached an error handler
C10_Witness ==
    \E i \in Invocations :
        /\ ~ErrorPolicySet /\ Rejected(i) /\ invs[i].value = Null /\ Finished(i)
        /\ Children(i) # {}

\* a value with the request it belongs to forgotten
Generic(x) == IF x.v \in {"req", "res", "next"} THEN [x EXCEPT !.n = 0] ELSE x
\* the handler invocations caused by c (i: the dispatcher of invocation i,
\* -i: the raw callback of invocation i itself): layer and arguments
Downstream(c) ==
    {[layer |-> invs[j].layer,
      args |-> [k \in 1..Len(invs[j].args) |-> Generic(invs[j].args[k])]] :
        j \in {m \in Invocations : invs[m].cause = c}}
\* the raw callback of invocation j called the continuation itself with R
CalledNextWith(j, R) == invs[j].own = <<<<R>>>>

\* C11 (as claimed): with no error policy, for every rejection reason R,
\* falsy ones included, a handler whose promise rejects with R causes the
\* same downstream invocations, with the same arguments, as the same handler
\* calling the continuation with R synchronously.
C11_RejectionLikeDirectCall ==
    \A i, j \in Invocations :
        /\ ~ErrorPolicySet /\ invs[i].layer = invs[j].layer
        /\ Rejected(i) /\ Finished(i) /\ CalledNextWith(j, invs[i].value)
        => Downstream(i) = Downstream(-j)

\* C11 (amended): with no error policy, a handler whose promise rejects with
\* R causes the same downstream invocations, with the same arguments, as the
\* same handler calling the continuation synchronously with R when R is
\* truthy, and with the substitute Error when R is falsy.
C11_RejectionLikeDirectCallOfReported ==
    \A i, j \in Invocations :
        /\ ~ErrorPolicySet /\ invs[i].layer = invs[j].layer
        /\ Rejected(i) /\ Finished(i) /\ CalledNextWith(j, Reported(invs[i].value))
        => Downstream(i) = Downstream(-j)

\* C11 witness: one request's handler rejected without a reason, the other
\* request's called the continuation with the substitute Error, and both
\* reached the error handler
C11_Witness ==
    \E i, j \in Invocations :
        /\ ~ErrorPolicySet /\ invs[i].layer = invs[j].layer
        /\ Rejected(i) /\ invs[i].value = Null /\ Finished(i)
        /\ CalledNextWith(j, NoReasonError)
        /\ Downstream(i) # {} /\ Downstream(-j) # {}

\* C12: when the raw callback returns a value that is not a thenable, no
\* promise callback is attached and the dispatcher calls neither the
\* continuation nor a policy for that invocation: the only invocations it
\* leads to are those of the raw callback's own continuation call.
C12_NonPromiseReturnIgnored ==
    \A i \in Invocations :
        invs[i].phase = "returned" /\ invs[i].ret # PromiseObj =>
            /\ invs[i].task = "none"
            /\ invs[i].log = <<>>
            /\ Children(i) = {}
            /\ \A j \in Invocations : invs[j].cause \in {i, -i} => invs[i].own # <<>>

\* C12 witness: a handler returned the string "next" and the request stayed
\* with it, while a handler that called the continuation itself and returned
\* undefined had the next handler invoked
C12_Witness ==
    \E i, j \in Invocations :
        /\ invs[i].phase = "returned" /\ invs[i].ret = Str("next")
        /\ invs[i].own = <<>> /\ pos[invs[i].req] = invs[i].layer
        /\ invs[j].phase = "returned" /\ invs[j].ret = Undefined
        /\ Downstream(-j) # {}
        /\ Quiet /\ \A k \in Invocations : invs[k].task \in {"none", "done"}

\* C13: whatever the dispatcher does for an invocation (calling the
\* continuation, the response policy or the error policy, and so invoking a
\* later handler) happens after the raw callback and the wrapper have
\* returned, also when the returned promise is settled at return time.
C13_DispatchAfterReturn ==
    \A i \in Invocations :
        invs[i].phase # "returned" =>
            /\ invs[i].log = <<>>
            /\ Children(i) = {}
            /\ invs[i].task \in {"none", "then"}

\* C13 witness: a wrapper is about to return with a promise that is already
\* fulfilled with "next", and nothing was dispatched for it yet, while an
\* earlier invocation of the same handler was dispatched after its return
C13_Witness ==
    \E i, j \in Invocations :
        /\ invs[i].phase = "handled" /\ FulfilledWith(i, {Str("next")})
        /\ invs[i].task = "then"
        /\ invs[j].layer = invs[i].layer /\ FulfilledWith(j, {Str("next")})
        /\ Finished(j) /\ Children(j) # {}

\* a path selector as the contract describes it: a string, a regular
\* expression, or a sequence whose first element is, recursively, a selector
RECURSIVE IsSelector(_)
IsSelector(x) ==
    \/ isString(x)
    \/ isRegExp(x)
    \/ isArray(x) /\ x.items # <<>> /\ IsSelector(x.items[1])
\* the arguments in handler position: all but a leading selector
HandlerPart(args) == IF args # <<>> /\ IsSelector(args[1]) THEN Tail(args) ELSE args
\* a value that is, or holds at some depth, something that is not a function
RECURSIVE NonCallableIn(_)
NonCallableIn(x) ==
    IF isArray(x) THEN \E k \in 1..Len(x.items) : NonCallableIn(x.items[k])
    ELSE TypeOf(x) # "function"
HasNonCallable(args) ==
    \E k \in 1..Len(HandlerPart(args)) : NonCallableIn(HandlerPart(args)[k])
\* the callbacks of nested sequences, depth first, left to right
RECURSIVE Leaves(_)
Leaves(items) ==
    IF items = <<>> THEN <<>>
    ELSE LET last == items[Len(items)]
             front == SubSeq(items, 1, Len(items) - 1)
         IN  Leaves(front) \o (IF isArray(last) THEN Leaves(last.items) ELSE <<last>>)
\* an error message saying that a callback was expected
CallbackExpected(msg) ==
    msg \in {"Expected a callback function but got a " \o ty :
                ty \in {"[object Undefined]", "[object Null]", "[object String]",
                         "[object Number]", "[object Array]", "[object RegExp]",
                         "[object Object]"}}
\* an intercepted operation has been called
Called == calls > 0

\* C14 (as claimed): a registration call with a value that is not callable in
\* handler position, at any argument position (the first included) and at any
\* depth, throws an error whose message says that a callback was expected.
\* Refuted: null or undefined as first argument makes the selector test read
\* args[0][0], which throws a TypeError before any handler is looked at.
C14_NonCallableThrowsExpectedCallback ==
    Called /\ HasNonCallable(outcome.call) =>
        outcome.threw /\ CallbackExpected(outcome.msg)

\* the layers the last registration call added to the router
LastLayers == SelectSeq(stack, LAMBDA layer : layer.call = calls)

\* C15: a registration call holding a value that is not callable in handler
\* position never reaches the saved original operation: nothing is passed
\* on, nothing is returned, and the router holds no layer of that call, not
\* even for the callbacks that come before the bad value.
C15_InvalidCallRegistersNothing ==
    Called /\ HasNonCallable(outcome.call) =>
        /\ outcome.threw
        /\ outcome.passed = <<>>
        /\ outcome.returned = Undefined
        /\ LastLayers = <<>>

\* C15 witness: a call with a selector, a valid callback and then null threw
C15_Witness ==
    /\ Called
    /\ outcome.call = <<Str("/foo"), h1, Null>>
    /\ outcome.threw

\* a leading selector that is a sequence starting with a sequence
NestedSelector(args) ==
    /\ args # <<>> /\ IsSelector(args[1])
    /\ isArray(args[1]) /\ isArray(args[1].items[1])
\* the functions the original operation was called with
PassedHandlers == SelectSeq(outcome.passed, LAMBDA x : TypeOf(x) = "function")

\* C16: a registration call whose handler arguments are callbacks nested in
\* sequences to any depth passes to the original operation one wrapper per
\* callback, in the depth-first left-to-right order of the callbacks, and
\* these wrappers, in that order, are the layers the router gets; so
\* [[h1],[h2]] registers the chain that h1, h2 registers.
C16_FlattenedInOrder ==
    /\ Called /\ HandlerPart(outcome.call) # <<>>
    /\ ~HasNonCallable(outcome.call) /\ ~NestedSelector(outcome.call)
    => LET raw == Leaves(HandlerPart(outcome.call))
       IN  /\ ~outcome.threw
           /\ Len(PassedHandlers) = Len(raw)
           /\ \A k \in 1..Len(raw) :
                  /\ PassedHandlers[k].v = "wrappedHandler"
                  /\ PassedHandlers[k].handler = raw[k]
           /\ [k \in 1..Len(LastLayers) |-> LastLayers[k].wrapper] = PassedHandlers

\* C16 witness: [[h1],[h2]] was registered and the router got the wrapper of
\* h1 followed by the wrapper of h2
C16_Witness ==
    /\ Called
    /\ outcome.call = <<Arr(<<Arr(<<h1>>), Arr(<<h2>>)>>)>>
    /\ Len(LastLayers) = 2
    /\ LastLayers[1].wrapper.handler = h1 /\ LastLayers[2].wrapper.handler = h2

\* a selector that is a string, a regular expression or a sequence of these
FlatSelector(x) ==
    \/ isString(x)
    \/ isRegExp(x)
    \/ /\ isArray(x) /\ x.items # <<>>
       /\ \A k \in 1..Len(x.items) : isString(x.items[k]) \/ isRegExp(x.items[k])

\* C17 (as claimed): whenever the first argument is a string (the empty
\* string included), a regular expression or a sequence of these, the
\* original operation gets that same value as its first argument, followed
\* by the wrappers of the callbacks; the selector is never wrapped.
\* Refuted: the empty string is set aside but not put back (if (first)).
C17_SelectorPassedUnchanged ==
    /\ Called /\ outcome.call # <<>> /\ FlatSelector(outcome.call[1])
    /\ ~HasNonCallable(outcome.call)
    => LET raw == Leaves(Tail(outcome.call))
       IN  /\ ~outcome.threw
           /\ Len(outcome.passed) = 1 + Len(raw)
           /\ outcome.passed[1] = outcome.call[1]
           /\ \A k \in 1..Len(raw) :
                  /\ outcome.passed[k + 1].v = "wrappedHandler"
                  /\ outcome.passed[k + 1].handler = raw[k]

\* C18 (as claimed): a first argument that is a sequence whose first element
\* is itself a sequence beginning, at some depth, with a string or a regular
\* expression is taken as the path selector: the call does not throw, and
\* the original operation gets that value first, followed by the wrappers.
\* Refuted: firstArgumentIsArray looks one level deep only, so the value is
\* flattened with the handlers and its strings are rejected as handlers.
C18_NestedSelectorRecognised ==
    /\ Called /\ NestedSelector(outcome.call) /\ ~HasNonCallable(outcome.call)
    => /\ ~outcome.threw
       /\ outcome.passed # <<>>
       /\ outcome.passed[1] = outcome.call[1]
       /\ \A k \in 2..Len(outcome.passed) : outcome.passed[k].v = "wrappedHandler"

\* the layer k was registered through a route object
RouteLayer(k) == \E r \in 1..Len(routes) : routes[r].group = stack[k].call
\* the raw callback of the layer k
RawOf(k) == stack[k].wrapper.handler
\* the one call the dispatcher owes the settled promise of invocation i: the
\* continuation for "next" and "route", the error path for a rejection
DispatchOutcome(i) ==
    LET inv == invs[i]
    IN  IF inv.promise = "fulfilled"
        THEN Call(NextFn(inv.req), SentinelArgs(inv.value))
        ELSE IF ErrorPolicySet
        THEN Call(errorHandler, <<Res(inv.req), Reported(inv.value)>>)
        ELSE Call(NextFn(inv.req), <<Reported(inv.value)>>)
\* the calls the dispatcher of invocation i made, requests forgotten
GenericLog(i) ==
    [k \in 1..Len(invs[i].log) |->
        [callee |-> Generic(invs[i].log[k].callee),
         args |-> [m \in 1..Len(invs[i].log[k].args) |->
                      Generic(invs[i].log[k].args[m])]]]

\* C19: route(path) returns the framework's route object with every verb
\* operation and 'all' intercepted; an intercepted operation of the route
\* returns the route, as the original does, so calls chain; a handler
\* registered through the route is kept as the same wrapper as when it is
\* registered on the router, and once its promise is settled with "next",
\* "route" or a rejection the dispatcher makes the same single call for it
\* as for the same handler registered directly on the router.
C19_RouteDispatchesLikeRouter ==
    /\ \A r \in 1..Len(routes) : routes[r].wrapped = RouteOperations
    /\ outcome.on = RouterObj /\ outcome.returned.v = "route" =>
           /\ Len(routes) > 0
           /\ outcome.returned = routes[Len(routes)].obj
    /\ outcome.on.v = "route" /\ ~outcome.threw => outcome.returned = outcome.on
    /\ \A k \in 1..Len(stack) :
           /\ stack[k].wrapper.v = "wrappedHandler"
           /\ stack[k].wrapper = wrapHandler(RawOf(k)).wrappedHandler
    /\ \A i \in Invocations :
           RouteLayer(invs[i].layer) /\ Finished(i) =>
               /\ Len(invs[i].log) = 1
               /\ IsCall(invs[i].log[1], DispatchOutcome(i).callee,
                         DispatchOutcome(i).args)
               /\ \A j \in Invocations :
                      /\ ~RouteLayer(invs[j].layer) /\ Finished(j)
                      /\ RawOf(invs[j].layer) = RawOf(invs[i].layer)
                      /\ invs[j].promise = invs[i].promise
                      /\ invs[j].value = invs[i].value
                      => GenericLog(j) = GenericLog(i)

\* C19 witness: a handler registered through a chained call on a route and
\* the same handler registered on the router have both been dispatched for
\* the same settlement, and the last call was made on the route object
C19_Witness ==
    /\ outcome.on.v = "route" /\ outcome.returned = outcome.on
    /\ \E i, j \in Invocations :
           /\ RouteLayer(invs[i].layer) /\ ~RouteLayer(invs[j].layer)
           /\ Finished(i) /\ Finished(j)
           /\ RawOf(invs[j].layer) = RawOf(invs[i].layer)
           /\ invs[j].promise = invs[i].promise
           /\ invs[j].value = invs[i].value

\* the request r has entered the router
Entered(r) == status[r] # "idle"

ParamInvocations == {i \in Invocations : IsParam(stack[invs[i].layer])}
\* the wrapper of invocation i has passed the return value to handleReturn
Handled(i) == invs[i].phase # "called"

\* C21 (as claimed): a parameter callback declared (req, res, next, value),
\* invoked with a string value, has the framework's continuation (the third
\* positional argument) called with no argument when its promise resolves with
\* "next" and, without an error policy, with R when it rejects with R; the
\* request and the captured string are never called. Refuted for a falsy R:
\* handleError replaces it by an Error.
C21_ParamContinuation ==
    \A i \in ParamInvocations :
        RawLength(i) = 4 /\ TypeOf(invs[i].args[4]) = "string" =>
            /\ Handled(i) => invs[i].next = invs[i].args[3]
            /\ \A k \in 1..Len(invs[i].log) :
                   invs[i].log[k].callee \notin {invs[i].args[1], invs[i].args[4]}
            /\ FulfilledWith(i, {Str("next")}) /\ Finished(i) =>
                   /\ Len(invs[i].log) = 1
                   /\ IsCall(invs[i].log[1], invs[i].args[3], <<>>)
            /\ Rejected(i) /\ Finished(i) /\ ~ErrorPolicySet =>
                   /\ Len(invs[i].log) = 1
                   /\ IsCall(invs[i].log[1], invs[i].args[3], <<invs[i].value>>)

\* C21 (amended): the same, the continuation being called with the error
\* handleError reports for R: R itself when truthy, the "rejected but did not
\* have a reason" Error otherwise.
C21_ParamContinuationOfReported ==
    \A i \in ParamInvocations :
        RawLength(i) = 4 /\ TypeOf(invs[i].args[4]) = "string" =>
            /\ Handled(i) => invs[i].next = invs[i].args[3]
            /\ \A k \in 1..Len(invs[i].log) :
                   invs[i].log[k].callee \notin {invs[i].args[1], invs[i].args[4]}
            /\ FulfilledWith(i, {Str("next")}) /\ Finished(i) =>
                   /\ Len(invs[i].log) = 1
                   /\ IsCall(invs[i].log[1], invs[i].args[3], <<>>)
            /\ Rejected(i) /\ Finished(i) /\ ~ErrorPolicySet =>
                   /\ Len(invs[i].log) = 1
                   /\ IsCall(invs[i].log[1], invs[i].args[3],
                             <<Reported(invs[i].value)>>)

\* C21 witness: a four-parameter parameter callback's promise was rejected
\* without a reason and the error handler after it has been invoked
C21_Witness ==
    \E i \in ParamInvocations :
        /\ RawLength(i) = 4 /\ invs[i].args[4] = ParamValue
        /\ ~ErrorPolicySet /\ Rejected(i) /\ invs[i].value = Null /\ Finished(i)
        /\ \E j \in Children(i) : invs[j].args[1] = NoReasonError

\* the raw callback of invocation i called the continuation itself
CalledNextItself(i) == invs[i].own # <<>>
Pending(i) == isPromise(invs[i].ret) /\ invs[i].promise = "pending"

\* C22: when the raw callback calls the continuation itself and returns a
\* promise that never settles, that call is the only one: the dispatcher
\* calls neither the continuation nor a policy for the invocation, and the
\* only handler invocation it causes is the one of the callback's own call.
C22_OwnCallAndPendingPromise ==
    \A i \in Invocations :
        CalledNextItself(i) /\ Handled(i) /\ Pending(i) =>
            /\ Len(invs[i].own) = 1
            /\ invs[i].log = <<>>
            /\ invs[i].task = "then"
            /\ Children(i) = {}
            /\ Cardinality({j \in Invocations : invs[j].cause = -i}) <= 1

\* C22 witness: the callback called next() itself, returned a pending
\* promise, and the handler its call reached has run and returned
C22_Witness ==
    \E i \in Invocations :
        /\ invs[i].own = <<<<>>>> /\ Pending(i) /\ invs[i].phase = "returned"
        /\ \E j \in Invocations : invs[j].cause = -i /\ invs[j].phase = "returned"

\* C23 (as claimed): while the promise a handler returned is pending, the
\* chain of its request stands still: no handler of the request is invoked
\* after it, the request stays at its layer and the dispatcher has made no
\* call; whatever the dispatcher causes later, it causes after settlement,
\* and the next ordinary handler of the same registration is invoked only
\* for a promise fulfilled with "next". Refuted: when the continuation call
\* that started the pending handler throws, handleError of the earlier
\* invocation calls the continuation again and the request moves on.
C23_PendingSuspendsChain ==
    \A i \in Invocations :
        /\ Handled(i) /\ Pending(i) =>
               /\ invs[i].log = <<>>
               /\ Children(i) = {}
               /\ \A j \in Invocations : invs[j].req = invs[i].req => j <= i
               /\ pos[invs[i].req] = invs[i].layer
               /\ status[invs[i].req] = "active"
        /\ \A j \in Children(i) :
               /\ invs[i].promise \in {"fulfilled", "rejected"}
               /\ Len(invs[j].args) = 3
                  /\ stack[invs[j].layer].call = stack[invs[i].layer].call
                  => FulfilledWith(i, {Str("next")})

\* the values of s, as a set
Range(s) == {s[k] : k \in DOMAIN s}

\* C24: whatever the interleaving of the requests going through a handler,
\* the dispatcher of an invocation calls only the continuation that was
\* passed to that invocation and passes only its response to a policy: the
\* response and the continuation it keeps are among the invocation's own
\* arguments and belong to its request, and every handler invocation it
\* causes is one of the same request.
C24_RequestsIsolated ==
    \A i \in Invocations :
        /\ Handled(i) =>
               /\ invs[i].res \in Range(invs[i].args)
               /\ invs[i].next \in Range(invs[i].args)
               /\ invs[i].res = Res(invs[i].req)
               /\ invs[i].next = NextFn(invs[i].req)
        /\ \A k \in 1..Len(invs[i].log) :
               LET c == invs[i].log[k]
               IN  /\ c.callee \in {NextFn(invs[i].req), responseHandler, errorHandler}
                   /\ ~IsContinuation(c.callee) => c.args[1] = Res(invs[i].req)
        /\ \A j \in Children(i) : invs[j].req = invs[i].req

\* C24 witness: two requests went through the same handler and the promise of
\* the second was dispatched while that of the first was still waiting
C24_Witness ==
    \E i, j \in Invocations :
        /\ i < j /\ invs[i].layer = invs[j].layer /\ invs[i].req # invs[j].req
        /\ invs[i].task = "then" /\ invs[i].promise = "fulfilled"
        /\ Finished(j) /\ invs[j].log # <<>>

\* C25 (as claimed): for every handler invocation the dispatcher makes at
\* most one call among the continuation, the response policy and the error
\* policy. Refuted: a continuation or response policy that throws inside the
\* fulfilment callback sends the exception to handleError, which makes a
\* second call (the error policy or the continuation).
C25_OneDecision ==
    \A i \in Invocations :
        Cardinality({k \in 1..Len(invs[i].log) :
            invs[i].log[k].callee \in {invs[i].next, responseHandler, errorHandler}}) <= 1

\* C26 (as claimed): the wrapper invokes the raw callback with the positional
\* arguments it was itself invoked with, whatever their number. Refuted for
\* the five-argument call of a parameter callback: the wrapper passes on the
\* three or four parameters it declares and drops the rest.
C26_SameArguments ==
    \A i \in Invocations :
        Handled(i) => invs[i].handlerArgs = invs[i].args

\* what the four-positional wrapper takes as response and continuation from
\* the arguments it is invoked with: those before a final string, the last
\* two otherwise
Disambiguated(i) ==
    IF TypeOf(Arg(invs[i].args, 4)) = "string"
    THEN invs[i].res = Arg(invs[i].args, 2) /\ invs[i].next = Arg(invs[i].args, 3)
    ELSE invs[i].res = Arg(invs[i].args, 3) /\ invs[i].next = Arg(invs[i].args, 4)
\* the three-positional wrapper: (req, res, next) passed on as they come
ThreePositional(i) ==
    /\ invs[i].handlerArgs = SubSeq(invs[i].args, 1, 3)
    /\ invs[i].res = Arg(invs[i].args, 2) /\ invs[i].next = Arg(invs[i].args, 3)

\* C27 (as claimed): a raw callback declaring neither 2 nor 3 parameters
\* gets the four-positional wrapper, which tells the error-handler form from
\* the parameter-capture form when it is invoked. Refuted: only a callback
\* declaring exactly 4 parameters does; one declaring 0, 1 or 5 gets the
\* three-positional wrapper of an ordinary handler.
C27_OtherCountsGetFourPositional ==
    /\ \A k \in 1..Len(stack) :
           RawOf(k).n \notin {2, 3} =>
               stack[k].wrapper.branch = "four" /\ stack[k].wrapper.n = 4
    /\ \A i \in Invocations :
           RawLength(i) \notin {2, 3} /\ Handled(i) =>
               Len(invs[i].handlerArgs) = 4 /\ Disambiguated(i)

\* C27 (amended): a raw callback declaring exactly 4 parameters gets the
\* four-positional wrapper, which tells the error-handler form from the
\* parameter-capture form when it is invoked; a callback declaring any other
\* number of parameters (0, 1, 3, 5; 2 for the terminal class) gets a
\* three-positional wrapper that passes (req, res, next) on as they come.
C27_ExactlyFourGetsFourPositional ==
    /\ \A k \in 1..Len(stack) :
           /\ RawOf(k).n = 4 <=> stack[k].wrapper.branch = "four"
           /\ RawOf(k).n = 2 <=> stack[k].wrapper.branch = "two"
           /\ stack[k].wrapper.n = IF RawOf(k).n = 4 THEN 4 ELSE 3
    /\ \A i \in Invocations :
           Handled(i) =>
               IF RawLength(i) = 4
               THEN Len(invs[i].handlerArgs) = 4 /\ Disambiguated(i)
               ELSE ThreePositional(i)

\* C27 witness: a parameter callback declaring no parameter was invoked with
\* the captured value, resolved with "next", and the handler after it ran
C27_Witness ==
    \E i \in ParamInvocations :
        /\ RawLength(i) = 0 /\ invs[i].args[4] = ParamValue
        /\ FulfilledWith(i, {Str("next")}) /\ Finished(i)
        /\ Children(i) # {}

\* the layer k as it would be had the raw callback been registered itself
RawLayer(k) == [stack[k] EXCEPT !.wrapper = RawOf(k)]

\* C28: the wrapper declares the parameter count of the class of the raw
\* callback it was built for (4 for the error-handler class, 3 for the
\* others), so the framework selects it exactly when it would select the raw
\* callback and invokes it with the arguments of that class: (err, req, res,
\* next) for a callback declaring four parameters, (req, res, next) for one
\* declaring two or three; these are the arguments the raw callback gets.
C28_WrapperMirrorsClass ==
    /\ \A k \in 1..Len(stack) :
           /\ stack[k].wrapper.n = IF RawOf(k).n = 4 THEN 4 ELSE 3
           /\ \A e \in {Undefined, Str("boom")} :
                  Matches(stack[k], e) <=> Matches(RawLayer(k), e)
    /\ \A i \in Invocations :
           LET r == invs[i].req
           IN  /\ RawLength(i) = 4 =>
                      /\ Len(invs[i].args) = 4 /\ Truthy(invs[i].args[1])
                      /\ SubSeq(invs[i].args, 2, 4) = <<Req(r), Res(r), NextFn(r)>>
               /\ RawLength(i) \in {2, 3} => invs[i].args = <<Req(r), Res(r), NextFn(r)>>
               /\ Handled(i) => invs[i].handlerArgs = invs[i].args

\* C28 witness: an ordinary handler and, after its rejection, an error
\* handler have both been invoked and have run
C28_Witness ==
    \E i, j \in Invocations :
        /\ RawLength(i) \in {2, 3} /\ Handled(i)
        /\ RawLength(j) = 4 /\ Handled(j) /\ j \in Children(i)

\* the four positional arguments the four-parameter wrapper declares, as it
\* is invoked for invocation i
Four(i) == SubSeq(invs[i].args, 1, 4)
\* the four-parameter wrapper of invocation i was invoked in the
\* parameter-capture form: the last of its four arguments is a string
ParamForm(i) ==
    /\ stack[invs[i].layer].wrapper.branch = "four"
    /\ TypeOf(Four(i)[4]) = "string"

\* C29 (as claimed): in the parameter-capture form the dispatcher takes the
\* response from the second-from-last of the four positional arguments and
\* the continuation from the third-from-last. Refuted: it is the other way
\* round, the second-from-last is the continuation.
C29_ParamFormPositions ==
    \A i \in Invocations :
        ParamForm(i) /\ Handled(i) =>
            /\ invs[i].res = Four(i)[3]
            /\ invs[i].next = Four(i)[2]

\* C29 (amended): in the parameter-capture form the dispatcher takes the
\* continuation from the second-from-last of the four positional arguments
\* (the third) and the response from the third-from-last (the second); they
\* are the framework's continuation and the response of the request, and the
\* dispatcher's calls go to them.
C29_ParamFormPositionsSwapped ==
    \A i \in Invocations :
        ParamForm(i) /\ Handled(i) =>
            /\ invs[i].res = Four(i)[2] /\ invs[i].res = Res(invs[i].req)
            /\ invs[i].next = Four(i)[3] /\ IsContinuation(invs[i].next)
            /\ \A k \in 1..Len(invs[i].log) :
                   LET c == invs[i].log[k]
                   IN  IF c.callee = errorHandler
                       THEN c.args[1] = Four(i)[2]
                       ELSE c.callee = Four(i)[3]

\* C29 witness: a four-parameter parameter callback's promise was rejected on
\* a router with an error policy, which was called with the response
C29_Witness ==
    \E i \in Invocations :
        /\ ParamForm(i) /\ Rejected(i) /\ Finished(i) /\ ErrorPolicySet
        /\ invs[i].log # <<>> /\ invs[i].log[1].args[1] = invs[i].args[2]

\* the four-parameter wrapper of invocation i was invoked in the
\* error-handler form: the last of its four arguments is not a string
ErrorForm(i) ==
    /\ stack[invs[i].layer].wrapper.branch = "four"
    /\ TypeOf(Four(i)[4]) # "string"

\* C30: in the error-handler form the dispatcher takes the continuation from
\* the last positional argument and the response from the second-from-last,
\* and the promise an error handler returns is dispatched with them: next()
\* for "next", next("route") for "route", and for a rejection the error
\* policy called with that response or, without a policy, that continuation
\* called with the reported error; every call of the dispatcher goes to that
\* continuation or passes that response.
C30_ErrorFormPositions ==
    \A i \in Invocations :
        ErrorForm(i) /\ Handled(i) =>
            /\ invs[i].next = Four(i)[4] /\ invs[i].next = NextFn(invs[i].req)
            /\ invs[i].res = Four(i)[3] /\ invs[i].res = Res(invs[i].req)
            /\ \A k \in 1..Len(invs[i].log) :
                   LET c == invs[i].log[k]
                   IN  IF c.callee = errorHandler
                       THEN c.args[1] = Four(i)[3]
                       ELSE c.callee = Four(i)[4]
            /\ FulfilledWith(i, Sentinels) /\ Dispatched(i) =>
                   IsCall(invs[i].log[1], Four(i)[4], SentinelArgs(invs[i].value))
            /\ Rejected(i) /\ Finished(i) =>
                   /\ Len(invs[i].log) = 1
                   /\ IsCall(invs[i].log[1], DispatchOutcome(i).callee,
                             DispatchOutcome(i).args)
                   /\ DispatchOutcome(i).callee \in {errorHandler, Four(i)[4]}

\* C30 witness: an error handler's promise was rejected on a router with an
\* error policy, which was called with the response the handler was invoked
\* with
C30_Witness ==
    \E i \in Invocations :
        /\ ErrorForm(i) /\ Rejected(i) /\ Finished(i) /\ ErrorPolicySet
        /\ IsCall(invs[i].log[1], errorHandler,
                  <<invs[i].args[3], Reported(invs[i].value)>>)

\* the first call the dispatcher made for invocation i threw
FirstCallThrew(i) == invs[i].log # <<>> /\ invs[i].log[1].threw

\* C33: when the continuation or the response policy throws while a resolved
\* value is dispatched, the exception is handled like a rejection reason: it
\* waits for the rejection callback, which passes it to the error policy when
\* one is configured and to the continuation otherwise; that is the second
\* and last call for the invocation.
C33_ThrownWhileDispatching ==
    \A i \in Invocations :
        invs[i].promise = "fulfilled" /\ FirstCallThrew(i) =>
            /\ invs[i].log[1].callee \in {invs[i].next, responseHandler}
            /\ invs[i].reason = Thrown
            /\ \/ invs[i].task = "catch" /\ Len(invs[i].log) = 1
               \/ /\ invs[i].task = "done" /\ Len(invs[i].log) = 2
                  /\ IF ErrorPolicySet
                     THEN IsCall(invs[i].log[2], errorHandler, <<invs[i].res, Thrown>>)
                     ELSE IsCall(invs[i].log[2], invs[i].next, <<Thrown>>)

\* C33 witness: the continuation called for "next" threw and, no error policy
\* being configured, the continuation was called a second time with the
\* exception
C33_Witness ==
    \E i \in Invocations :
        /\ FulfilledWith(i, {Str("next")}) /\ FirstCallThrew(i) /\ Finished(i)
        /\ IsCall(invs[i].log[1], invs[i].next, <<>>)
        /\ IsCall(invs[i].log[2], invs[i].next, <<Thrown>>)

\* C34: when the error policy throws while it handles a rejection, nothing
\* else is called for the invocation: the error policy is not called again,
\* the continuation is not called, no handler is invoked because of it, and
\* the exception is left as an unhandled rejection.
C34_ErrorPolicyThrows ==
    \A i \in Invocations :
        Rejected(i) /\ ErrorPolicySet /\ FirstCallThrew(i) =>
            /\ Len(invs[i].log) = 1
            /\ IsCall(invs[i].log[1], errorHandler,
                      <<invs[i].res, Reported(invs[i].value)>>)
            /\ invs[i].task = "done" /\ invs[i].unhandled
            /\ Children(i) = {}
            /\ pos[invs[i].req] = invs[i].layer

\* C34 witness: the error policy threw for a rejection while a later error
\* handler was registered, which has not been invoked
C34_Witness ==
    \E i \in Invocations :
        /\ Rejected(i) /\ ErrorPolicySet /\ FirstCallThrew(i) /\ Finished(i)
        /\ \E k \in (invs[i].layer + 1)..Len(stack) : Matches(stack[k], Thrown)

\* C35: a policy option that is no function (undefined, null, an object, a
\* string) counts as not configured: the dispatcher never calls a value that
\* is no function; without a callable error policy a rejection goes to the
\* continuation, with the reported error; without a callable response policy
\* the value a terminal handler resolves with is dropped, no call being made.
C35_NonCallablePolicyIgnored ==
    \A i \in Invocations :
        /\ \A k \in 1..Len(invs[i].log) : TypeOf(invs[i].log[k].callee) = "function"
        /\ ~ErrorPolicySet /\ Rejected(i) /\ Finished(i) =>
               /\ Len(invs[i].log) = 1
               /\ IsCall(invs[i].log[1], invs[i].next, <<Reported(invs[i].value)>>)
        /\ ~ResponsePolicySet /\ RawLength(i) = 2
           /\ FulfilledWith(i, ResolveValues \ Sentinels) =>
               invs[i].log = <<>>

\* C35 witness: with null for the error policy and an object for the
\* response policy, a rejection has gone to the continuation
C35_Witness ==
    \E i \in Invocations :
        /\ errorHandler = Null /\ responseHandler = Obj("object", 0)
        /\ Rejected(i) /\ Finished(i)
        /\ IsCall(invs[i].log[1], invs[i].next, <<Reported(invs[i].value)>>)

\* the invocation the framework made next for the request of invocation i
Successor(i) ==
    {j \in Invocations :
        /\ j > i /\ invs[j].req = invs[i].req
        /\ \A m \in (i + 1)..(j - 1) : invs[m].req # invs[i].req}

\* C36: when the raw callback throws, the exception leaves the wrapper as it
\* was thrown and reaches the wrapper's caller (the framework goes on with
\* it as the error); handleReturn is never entered for that invocation:
\* no promise callback is attached, no policy and no continuation is called
\* by the adapter, and no later invocation is owed to its dispatcher. The
\* dispatcher only ever runs for an invocation whose callback returned.
C36_SynchronousThrowPropagates ==
    \A i \in Invocations :
        /\ invs[i].escaped # Undefined =>
              /\ invs[i].escaped = Thrown
              /\ invs[i].phase = "returned"
              /\ invs[i].task = "none" /\ invs[i].promise = "none"
              /\ invs[i].log = <<>>
              /\ Children(i) = {}
              /\ \A j \in Successor(i) :
                     invs[j].cause = 0 /\ invs[j].args[1] = Thrown
        /\ invs[i].promise = "none" =>
              invs[i].task = "none" /\ invs[i].log = <<>>

\* C36 witness: with an error policy configured, the first handler threw
\* and the error handler was invoked with what it threw, and threw too
C36_Witness ==
    \E i \in Invocations, j \in Invocations :
        /\ ErrorPolicySet
        /\ invs[i].escaped = Thrown /\ j \in Successor(i)
        /\ invs[j].args[1] = Thrown /\ RawLength(j) = 4
        /\ invs[j].escaped = Thrown /\ Quiet

\* a value that is, or holds at some depth, a function that is no wrapper
RECURSIVE RawCallableIn(_)
RawCallableIn(x) ==
    IF isArray(x) THEN \E k \in 1..Len(x.items) : RawCallableIn(x.items[k])
    ELSE TypeOf(x) = "function" /\ x.v # "wrappedHandler"

\* C37 (as claimed): after a registration call that succeeded, no function
\* the original operation was given, at any depth of its arguments, is a raw
\* callback, those inside a leading sequence that starts with a string or a
\* regular expression included.
\* Refuted: such a leading sequence is set aside and put back as it is, so a
\* callback inside it reaches the original operation unwrapped.
C37_EveryCallableWrapped ==
    Called /\ ~outcome.threw =>
        \A k \in 1..Len(outcome.passed) : ~RawCallableIn(outcome.passed[k])

\* C37 (amended): after a registration call that succeeded, every argument
\* of the original operation is either the leading path selector, which is
\* the caller's first argument as it was given (a callback inside it is
\* still the raw callback), or the wrapper the normalizer makes for one of
\* the caller's callbacks; no raw callback is delivered in handler position.
C37_EveryHandlerWrapped ==
    Called /\ ~outcome.threw =>
        \A k \in 1..Len(outcome.passed) :
            \/ /\ k = 1 /\ shouldRemoveFirstArg(outcome.call)
               /\ outcome.passed[1] = outcome.call[1]
               /\ TypeOf(outcome.passed[1]) # "function"
            \/ /\ outcome.passed[k].v = "wrappedHandler"
               /\ outcome.passed[k] = wrapHandler(outcome.passed[k].handler).wrappedHandler
               /\ \E j \in 1..Len(Leaves(outcome.call)) :
                      Leaves(outcome.call)[j] = outcome.passed[k].handler

\* C37 witness: ['/a', h1], h2 was registered: the original operation got
\* the sequence with the raw h1 in it, and the wrapper of h2
C37_Witness ==
    /\ Called /\ ~outcome.threw
    /\ outcome.call = <<Arr(<<Str("/a"), h1>>), h2>>
    /\ outcome.passed = <<Arr(<<Str("/a"), h1>>), wrapHandler(h2).wrappedHandler>>

\* the private name of the operation m of the intercepted object t holds the
\* framework's own operation, and its public name the proxy of a first wrap
WrappedOnce(t, m) ==
    /\ t.priv[m] = Original(m)
    /\ t.pub[m] = Proxy(m, Original(m))

\* C32: in every state reached by construction, route(path) calls and
\* registrations on the router and on routes, each operation the adapter
\* intercepts on the router (the verbs, use, all, param, route) and on each
\* route object route(path) has returned (the verbs, all) was wrapped once:
\* its private name holds the framework's own operation, never a proxy, and
\* its public name holds the first proxy made for it.
C32_SavedIsOriginal ==
    /\ \A m \in RouterMethods \cup {"route"} : WrappedOnce(router, m)
    /\ \A k \in 1..Len(routes) :
           /\ \A m \in RouteOperations : WrappedOnce(routes[k].table, m)
           /\ routes[k].wrapped = RouteOperations

\* C32 witness: a route was made and handlers were registered through the
\* router and through the route, and a request has been served
C32_Witness ==
    /\ Len(routes) = 1
    /\ \E k \in 1..Len(stack) : stack[k].call = routes[1].group
    /\ \E k \in 1..Len(stack) : stack[k].call # routes[1].group
    /\ outcome.on = routes[1].obj
    /\ \E r \in Requests : status[r] = "finished"

\* C31 (as claimed): whatever number of times wrapMethod was applied to an
\* operation of the router, a registration call through it with callbacks
\* returns, has passed to the framework's operation one wrapper per
\* callback, each made by one run of the normalizer on the raw callback, and
\* has registered exactly these.
\* Refuted: the second wrapMethod saves the first proxy under the private
\* name, so the proxy calls itself until the call stack is exhausted.
C31_RewrapIdempotent ==
    /\ Called /\ ~HasNonCallable(outcome.call)
    => LET raw == Leaves(HandlerPart(outcome.call))
       IN  /\ ~outcome.threw
           /\ outcome.returned = RouterObj
           /\ Len(PassedHandlers) = Len(raw)
           /\ \A k \in 1..Len(raw) :
                  PassedHandlers[k] = wrapHandler(raw[k]).wrappedHandler
           /\ [k \in 1..Len(stack) |-> stack[k].wrapper] = PassedHandlers

\* the policies an instance was made with
Policies(own) == {p \in {own.responseHandler, own.errorHandler} : TypeOf(p) = "function"}
\* the configuration of the instance whose wrapper the invocation i runs
ConfigOf(i) ==
    IF OwnedByPeer(i) THEN peer
    ELSE [responseHandler |-> responseHandler, errorHandler |-> errorHandler]
\* the configuration of the other instance
OtherConfigOf(i) ==
    IF OwnedByPeer(i)
    THEN [responseHandler |-> responseHandler, errorHandler |-> errorHandler]
    ELSE peer

\* C38: with two instances, every call made for a handler is a call of the
\* continuation or of a policy of the instance the handler was registered
\* on, never of a policy of the other instance, however the requests
\* interleave; and the call is the one the handler's own instance prescribes:
\* a rejection goes to its own error policy, or to the continuation when it
\* has none, and a value to its own response policy, or nowhere.
C38_PoliciesPerInstance ==
    \A i \in Invocations :
        /\ \A k \in 1..Len(invs[i].log) :
               /\ invs[i].log[k].callee \notin Policies(OtherConfigOf(i))
               /\ invs[i].log[k].callee \in Policies(ConfigOf(i)) \cup {invs[i].next}
        /\ Finished(i) /\ Rejected(i) =>
               invs[i].log[1].callee =
                   IF TypeOf(ConfigOf(i).errorHandler) = "function"
                   THEN ConfigOf(i).errorHandler ELSE invs[i].next
        /\ Finished(i) /\ FulfilledWith(i, {Str("data"), Str("boom")}) =>
               IF TypeOf(ConfigOf(i).responseHandler) = "function"
               THEN invs[i].log[1].callee = ConfigOf(i).responseHandler
               ELSE invs[i].log = <<>>

\* C38 witness: the first instance has both policies and the second none; a
\* handler of the first instance had its value sent to the response policy
\* and, for the other request, the rejection of a handler of the second
\* instance went to the continuation
C38_Witness ==
    \E i \in Invocations, j \in Invocations :
        /\ Policies(peer) = {} /\ ResponsePolicySet /\ ErrorPolicySet
        /\ ~OwnedByPeer(i) /\ OwnedByPeer(j) /\ invs[i].req # invs[j].req
        /\ Finished(i) /\ invs[i].log # <<>> /\ invs[i].log[1].callee = responseHandler
        /\ Finished(j) /\ Rejected(j) /\ invs[j].log[1].callee = invs[j].next

\* the calls the dispatcher of src/lib makes for the handler, the positional
\* arguments and the settlement of the invocation i, when the functions it
\* calls return: the call of handlePromiseResult, followed by that of
\* handleError if the former called what is no function, or the call of
\* handleError for a rejection
LibCalls(i) ==
    LET w == wrapHandler(RawCallback(i)).wrappedHandler
        ctx == wrappedHandler(w, invs[i].args)
        cs == handlePromiseResult(invs[i].value, ctx.res, ctx.next, ctx.handleResponse)
    IN  IF invs[i].promise = "rejected"
        THEN <<handleError(invs[i].value, ctx.res, ctx.next)>>
        ELSE IF cs = <<>> \/ TypeOf(cs[1].callee) = "function" THEN cs
        ELSE cs \o <<handleError(TypeErr, ctx.res, ctx.next)>>
\* the calls the dispatcher made for the invocation i
CallsMade(i) == [k \in 1..Len(invs[i].log) |-> Call(invs[i].log[k].callee, invs[i].log[k].args)]

\* C39 (as claimed): the compiled build gives every handler the wrapper
\* src/lib gives it (so that the framework invokes it for the same requests
\* and with the same arguments), and for every invocation whose promise has
\* settled and whose callbacks have run, it has made the calls src/lib makes
\* for the same handler, arguments, settlement and policies.
\* Refuted: the compiled build calls a policy that was left undefined, takes
\* a handler declaring no parameter for an error handler, passes a missing
\* rejection reason on as it is, and in the parameter form takes the response
\* object for the continuation.
C39_DistLikeLib ==
    /\ \A k \in 1..Len(stack) :
           stack[k].wrapper = wrapHandler(stack[k].wrapper.handler).wrappedHandler
    /\ \A i \in Invocations :
           Finished(i) /\ invs[i].promise \in {"fulfilled", "rejected"} =>
               CallsMade(i) = LibCalls(i)

====
